---- MODULE Spec2Model ----
(***************************************************************************)
(* A model of cooltools' dot-calling pipeline (cooltools/dotfinder.py):    *)
(* the tiling generators, the Benjamini-Hochberg q-value computation and   *)
(* the per-tile locally-adjusted-expected scorer.                          *)
(*                                                                         *)
(* Every generator is a state machine that performs one iteration of its   *)
(* loop per step; every pure function is an operator computed as the code  *)
(* computes it.  Each component has a specification of its own             *)
(* (SpecTiling, SpecQvals, ...) whose Init draws the component's inputs    *)
(* from bounded sets and leaves the other components idle.                 *)
(***************************************************************************)
EXTENDS Integers, Sequences, FiniteSets, TLC

\* ------------------------------------------------------------------ bounds
\* largest absolute bin offset of the tiled range (start / chr_start)
MaxStart == 1
\* largest size (stop - start) of the tiled range, in bins
MaxSize == 6
\* largest tile step (tile_size)
MaxStep == 3
\* largest edge (pad_size)
MaxEdge == 2
\* largest bandwidth / band_to_cover
MaxBand == 4

\* ----------------------------------------------------------------- helpers
\* python's builtin max(a, b) / min(a, b)
Max(a, b) == IF a >= b THEN a ELSE b
Min(a, b) == IF a <= b THEN a ELSE b

\* ------------------------------------------------------------------- state
VARIABLES
    gen,      \* the tiling generator that is running: "diag", "square",
              \* "heatmap", or "idle" when another component is being run
    targs,    \* the arguments the generator was called with
    tx,       \* loop index: t of diagonal_matrix_tiling, tx of square_matrix_tiling
    ty,       \* loop index ty of square_matrix_tiling
    tiles,    \* the sequence of values yielded so far
    tpc,      \* "run" while the generator's loop is live, "done" once exhausted
    pvals,    \* get_qvals: the array of p-values it is called with
    prank,    \* get_qvals: the 1-indexed rank of every p-value
    qvals,    \* get_qvals: the returned array
    qpc,      \* get_qvals: "call" before the call, "done" after it, else "idle"
    res_df,   \* Mode A: the table of scored pixels, one record per pixel
    fdr,      \* Mode A: the FDR threshold clustering_step is called with
    apc,      \* Mode A: "tile", "scored", "tested", else "idle"
    clr,      \* scorer: the cooler (bin weights, raw counts) and the expected
    sargs,    \* scorer: step, tiles, kernels, nans_tolerated,
              \* loci_separation_bins
    result,   \* scorer: `result` of the last score_tile call, the table that
              \* get_adjusted_expected_tile_some_nans returned
    frame,    \* scorer: the matrices that call computed (its locals)
    chunks,   \* scorer: the tables score_tile returned, one per tile so far
    spc,      \* scorer: "run" while tiles are left, "done", "raised",
              \* else "idle"
    hscored,  \* histograms: the table to_score returns, per tile
    hchunks,  \* histograms: the histograms job returned, per tile so far
    final_hist, \* histograms: the merged histograms
    hout,     \* histograms: the histograms the step returned
    herr,     \* histograms: the kernel and bin the AssertionError names
    hpc,      \* histograms: "map", "check", "returned", "raised", else "idle"
    xscored,  \* extraction: scored_df
    xthresholds, \* extraction: thresholds
    xout,     \* extraction: the table extract_scored_pixels returned
    xpc,      \* extraction: "call", "done", else "idle"
    pkind,    \* steps: which of the three steps runs
    pnproc,   \* steps: nproc
    ptiles,   \* steps: the tile list, each tile with the outcome of its job
    ppool,    \* steps: the pool: "none", "open" or "closed"
    psub,     \* steps: imap has handed the tasks to the pool
    pstat,    \* steps: per tile, "todo", "ok" or "failed"
    pexec,    \* steps: the tiles whose job has run, in the order they ran
    pacc,     \* steps: the results the caller has taken so far
    pres,     \* steps: the value being built and returned
    perr,     \* steps: the exception raised
    ppc,      \* steps: the position of the caller
    cmode,    \* clustering: "file" (clustering_step) or "local" (clustering_step_local)
    crows,    \* clustering: the pixels, in the order they were scored
    csizes,   \* clustering: the sizes of the chunks the pixels were written in
    cdf,      \* clustering: the table the step works on, with its index
    centroids, \* clustering: the table returned
    cpc,      \* clustering: "call", "returned", "raised", else "idle"
    tfactor,  \* thresholding: whether the run was given a balance_factor
    tcentroids, \* thresholding: the rows of centroids
    tcols,    \* thresholding: the columns of centroids
    tout,     \* thresholding: the rows returned
    toutcols, \* thresholding: the columns returned
    thpc,     \* thresholding: "call", "returned", "raised", else "idle"
    wentry,   \* weight column: the function that was called
    wname,    \* weight column: the name asked for
    wcols,    \* weight column: the weight columns of the bin table
    wtiles,   \* weight column: the number of tiles of the step
    wjobs,    \* weight column: the tile jobs started so far
    werr,     \* weight column: the message of the exception raised
    wpc,      \* weight column: "call", "returned", "raised", else "idle"
    bn,       \* count_bad_pixels_per_diag: n
    bad_bins, \* count_bad_pixels_per_diag: bad_bins
    dcount,   \* count_bad_pixels_per_diag: dcount
    diag,     \* count_bad_pixels_per_diag: diag
    pl,       \* count_bad_pixels_per_diag: pl
    pr,       \* count_bad_pixels_per_diag: pr
    bpc,      \* count_bad_pixels_per_diag: position in the function
    gkind,    \* diagsum or diagsum_asymm
    bad_mask, \* make_diag_table: bad_mask of the scaffold
    span1,    \* make_diag_table: span1
    span2,    \* make_diag_table: span2
    ignore_diags, \* diagsum: ignore_diags
    dtables,  \* diagsum: the table of the area
    gerr,     \* diagsum: the exception raised
    gpc       \* diagsum: position in the function

tilingVars == <<gen, targs, tx, ty, tiles, tpc>>
qvalVars == <<pvals, prank, qvals, qpc>>
modeAVars == <<res_df, fdr, apc>>
scoreVars == <<clr, sargs, result, frame, chunks, spc>>
histVars == <<hscored, hchunks, final_hist, hout, herr, hpc>>
extractVars == <<xscored, xthresholds, xout, xpc>>
poolVars == <<pkind, pnproc, ptiles, ppool, psub, pstat, pexec, pacc, pres, perr, ppc>>
clusterVars == <<cmode, crows, csizes, cdf, centroids, cpc>>
threshVars == <<tfactor, tcentroids, tcols, tout, toutcols, thpc>>
weightVars == <<wentry, wname, wcols, wtiles, wjobs, werr, wpc>>
diagCountVars == <<bn, bad_bins, dcount, diag, pl, pr, bpc>>
diagTableVars == <<gkind, bad_mask, span1, span2, ignore_diags, dtables, gerr, gpc>>

notTiling == <<qvalVars, modeAVars, scoreVars, histVars, extractVars, poolVars, clusterVars, threshVars, weightVars, diagCountVars, diagTableVars>>
notQvals == <<tilingVars, modeAVars, scoreVars, histVars, extractVars, poolVars, clusterVars, threshVars, weightVars, diagCountVars, diagTableVars>>
notModeA == <<tilingVars, qvalVars, scoreVars, histVars, extractVars, poolVars, clusterVars, threshVars, weightVars, diagCountVars, diagTableVars>>
notScore == <<tilingVars, qvalVars, modeAVars, histVars, extractVars, poolVars, clusterVars, threshVars, weightVars, diagCountVars, diagTableVars>>
notHist == <<tilingVars, qvalVars, modeAVars, scoreVars, extractVars, poolVars, clusterVars, threshVars, weightVars, diagCountVars, diagTableVars>>
notExtract == <<tilingVars, qvalVars, modeAVars, scoreVars, histVars, poolVars, clusterVars, threshVars, weightVars, diagCountVars, diagTableVars>>
notPool == <<tilingVars, qvalVars, modeAVars, scoreVars, histVars, extractVars, clusterVars, threshVars, weightVars, diagCountVars, diagTableVars>>
notCluster == <<tilingVars, qvalVars, modeAVars, scoreVars, histVars, extractVars, poolVars, threshVars, weightVars, diagCountVars, diagTableVars>>
notThresh == <<tilingVars, qvalVars, modeAVars, scoreVars, histVars, extractVars, poolVars, clusterVars, weightVars, diagCountVars, diagTableVars>>
notWeight == <<tilingVars, qvalVars, modeAVars, scoreVars, histVars, extractVars, poolVars, clusterVars, threshVars, diagCountVars, diagTableVars>>
notDiagCount == <<tilingVars, qvalVars, modeAVars, scoreVars, histVars, extractVars, poolVars, clusterVars, threshVars, weightVars, diagTableVars>>
notDiagTable == <<tilingVars, qvalVars, modeAVars, scoreVars, histVars, extractVars, poolVars, clusterVars, threshVars, weightVars, diagCountVars>>

vars == <<gen, targs, tx, ty, tiles, tpc, pvals, prank, qvals, qpc,
          res_df, fdr, apc, clr, sargs, result, frame, chunks, spc,
          hscored, hchunks, final_hist, hout, herr, hpc,
          xscored, xthresholds, xout, xpc,
          pkind, pnproc, ptiles, ppool, psub, pstat, pexec, pacc, pres, perr, ppc,
          cmode, crows, csizes, cdf, centroids, cpc,
          tfactor, tcentroids, tcols, tout, toutcols, thpc,
          wentry, wname, wcols, wtiles, wjobs, werr, wpc,
          bn, bad_bins, dcount, diag, pl, pr, bpc,
          gkind, bad_mask, span1, span2, ignore_diags, dtables, gerr, gpc>>

\* ================================================================ tiling

\* `tiles = size // step + bool(size % step)`
NumTiles(size, step) == (size \div step) + (IF size % step # 0 THEN 1 ELSE 0)

\* body of the loop of diagonal_matrix_tiling for one t: the yielded pair
DiagTile(a, t) ==
    LET size == a.stop - a.start
        lw == Max(0, a.step * (t - 1) - a.edge)
        rw == Min(size, a.step * (t + 1) + a.edge)
    IN  <<lw + a.start, rw + a.start>>

\* one span (lw+start, rw+start) of square_matrix_tiling for grid index t:
\* the x and the y span are computed by the same four lines
SquareSpanMutStep(a, t) ==
    LET size == a.stop - a.start
        lw0 == Max(0, a.step * t - a.edge)
        rw == Min(size, a.step * (t + 1) + a.edge)
        lw == IF a.square /\ rw >= size THEN size - a.step ELSE lw0
    IN  <<lw + a.start, rw + a.start>>

SquareSpan(a, t) ==
    LET size == a.stop - a.start
        lw0 == Max(0, a.step * t - a.edge)
        rw == Min(size, a.step * (t + 1) + a.edge)
        lw == IF a.square /\ rw >= size THEN size - a.step - a.edge ELSE lw0
    IN  <<lw + a.start, rw + a.start>>

\* the yielded value of square_matrix_tiling for (tx, ty)
SquareTile(a, x, y) == <<SquareSpan(a, x), SquareSpan(a, y)>>

\* the test of heatmap_tiles_generator_diag on one (tilei, tilej)
IntersectsBand(tilei, tilej, pad_size, band_to_cover) ==
    LET diag_from == tilej[1] - tilei[2]
        diag_to == tilej[2] - tilei[1]
        band_from == 0
        band_to == band_to_cover
    IN  (Min(band_to, diag_to) - Max(band_from, diag_from)) > 2 * pad_size

\* arguments of the three generators
DiagArgs ==
    [start : 0..MaxStart, stop : 0..(MaxStart + MaxSize), step : 1..MaxBand,
     edge : 0..MaxEdge, square : {FALSE}, band : {0}]

SquareArgs ==
    [start : 0..MaxStart, stop : 0..(MaxStart + MaxSize), step : 1..MaxStep,
     edge : 0..MaxEdge, square : BOOLEAN, band : {0}]

\* heatmap_tiles_generator_diag calls square_matrix_tiling(chr_start, chr_stop,
\* tile_size, pad_size) with square left at its default False; a chromosome
\* of the cooler is never empty
HeatmapArgs ==
    [start : 0..MaxStart, stop : 1..(MaxStart + MaxSize), step : 1..MaxStep,
     edge : 0..MaxEdge, square : {FALSE}, band : 1..MaxBand]

InRange(a) == a.start <= a.stop /\ a.stop - a.start <= MaxSize

InitTiling ==
    /\ gen \in {"diag", "square", "heatmap"}
    /\ targs \in CASE gen = "diag" -> {a \in DiagArgs : InRange(a)}
                   [] gen = "square" -> {a \in SquareArgs : InRange(a)}
                   [] OTHER -> {a \in HeatmapArgs : InRange(a) /\ a.start < a.stop}
    /\ tx = IF gen = "diag" THEN 1 ELSE 0
    /\ ty = 0
    /\ tiles = <<>>
    /\ tpc = "run"

IdleTiling ==
    /\ gen = "idle"
    /\ targs = [start |-> 0, stop |-> 0, step |-> 1, edge |-> 0,
                square |-> FALSE, band |-> 0]
    /\ tx = 0
    /\ ty = 0
    /\ tiles = <<>>
    /\ tpc = "done"

TilesOf(a) == NumTiles(a.stop - a.start, a.step)

\* diagonal_matrix_tiling: `for t in range(1, tiles): ... yield lw+start, rw+start`
DiagYield ==
    /\ gen = "diag" /\ tpc = "run"
    /\ tx < TilesOf(targs)
    /\ tiles' = Append(tiles, DiagTile(targs, tx))
    /\ tx' = tx + 1
    /\ UNCHANGED <<gen, targs, ty, tpc>>
    /\ UNCHANGED notTiling

DiagStop ==
    /\ gen = "diag" /\ tpc = "run"
    /\ tx >= TilesOf(targs)
    /\ tpc' = "done"
    /\ UNCHANGED <<gen, targs, tx, ty, tiles>>
    /\ UNCHANGED notTiling

\* the two nested loops `for tx in range(tiles): for ty in range(tiles):`
\* advanced by one iteration
AdvanceGrid ==
    IF ty + 1 < TilesOf(targs)
    THEN tx' = tx /\ ty' = ty + 1
    ELSE tx' = tx + 1 /\ ty' = 0

\* square_matrix_tiling called on its own: every grid cell is yielded
SquareYield ==
    /\ gen = "square" /\ tpc = "run"
    /\ tx < TilesOf(targs)
    /\ tiles' = Append(tiles, SquareTile(targs, tx, ty))
    /\ AdvanceGrid
    /\ UNCHANGED <<gen, targs, tpc>>
    /\ UNCHANGED notTiling

SquareStop ==
    /\ gen = "square" /\ tpc = "run"
    /\ tx >= TilesOf(targs)
    /\ tpc' = "done"
    /\ UNCHANGED <<gen, targs, tx, ty, tiles>>
    /\ UNCHANGED notTiling

\* heatmap_tiles_generator_diag, one chromosome: a grid cell that passes the
\* band test is yielded ...
HeatmapYield ==
    /\ gen = "heatmap" /\ tpc = "run"
    /\ tx < TilesOf(targs)
    /\ LET t == SquareTile(targs, tx, ty)
       IN  /\ IntersectsBand(t[1], t[2], targs.edge, targs.band)
           /\ tiles' = Append(tiles, t)
    /\ AdvanceGrid
    /\ UNCHANGED <<gen, targs, tpc>>
    /\ UNCHANGED notTiling

\* ... and one that fails it is passed over
HeatmapSkip ==
    /\ gen = "heatmap" /\ tpc = "run"
    /\ tx < TilesOf(targs)
    /\ LET t == SquareTile(targs, tx, ty)
       IN  ~IntersectsBand(t[1], t[2], targs.edge, targs.band)
    /\ AdvanceGrid
    /\ UNCHANGED <<gen, targs, tiles, tpc>>
    /\ UNCHANGED notTiling

HeatmapStop ==
    /\ gen = "heatmap" /\ tpc = "run"
    /\ tx >= TilesOf(targs)
    /\ tpc' = "done"
    /\ UNCHANGED <<gen, targs, tx, ty, tiles>>
    /\ UNCHANGED notTiling

NextTiling ==
    \/ DiagYield
    \/ DiagStop
    \/ SquareYield
    \/ SquareStop
    \/ HeatmapYield
    \/ HeatmapSkip
    \/ HeatmapStop

\* ============================================================= numbers
\* numpy's float64 values, without rounding: the pair <<n, d>> with d >= 0
\* and n/d in lowest terms is the number n/d; <<1, 0>> is +inf, <<-1, 0>> is
\* -inf and <<0, 0>> is NaN.
RECURSIVE GCD(_, _)
GCD(a, b) == IF b = 0 THEN a ELSE GCD(b, a % b)

Abs(n) == IF n < 0 THEN -n ELSE n
Sign(n) == IF n > 0 THEN 1 ELSE IF n < 0 THEN -1 ELSE 0

\* <<n, d>> (d of either sign) in canonical form
Norm(n, d) ==
    IF d = 0 THEN <<Sign(n), 0>>
    ELSE IF n = 0 THEN <<0, 1>>
    ELSE LET g == GCD(Abs(n), Abs(d))
         IN  <<(Sign(d) * n) \div g, Abs(d) \div g>>

NaN == <<0, 0>>
Inf == <<1, 0>>
Zero == <<0, 1>>
One == <<1, 1>>
FromInt(n) == <<n, 1>>
Frac(n, d) == Norm(n, d)

\* np.isnan, np.isfinite
IsNaN(x) == x = NaN
IsFinite(x) == x[2] # 0

\* np.multiply: inf * 0 and anything with NaN is NaN
FMul(x, y) == Norm(x[1] * y[1], x[2] * y[2])

\* np.divide / np.true_divide: x/0 is +-inf, 0/0 and inf/inf are NaN
FDiv(x, y) == Norm(x[1] * y[2] * Sign(y[1]), x[2] * Abs(y[1]))

\* float addition: inf + (-inf) and anything with NaN is NaN
FAdd(x, y) ==
    IF x[2] = 0 /\ y[2] = 0
    THEN (IF x = y THEN x ELSE NaN)
    ELSE Norm(x[1] * y[2] + y[1] * x[2], x[2] * y[2])

\* x <= y, x < y and x == y of floats: False whenever an operand is NaN
FLe(x, y) ==
    /\ ~IsNaN(x) /\ ~IsNaN(y)
    /\ IF x[2] = 0 /\ y[2] = 0 THEN x[1] <= y[1]
       ELSE x[1] * y[2] <= y[1] * x[2]
FLt(x, y) == FLe(x, y) /\ x # y
FEq(x, y) == ~IsNaN(x) /\ x = y

\* ============================================================ get_qvals
\* largest length of the p-value array
MaxPvals == 4

\* the p-values an array is drawn from
PGrid == {Zero, Frac(1, 100), Frac(2, 100), Frac(3, 100), Frac(1, 2), One}

\* the order np.argsort sorts floats in: ascending, NaN last
SortLe(x, y) == IsNaN(y) \/ (~IsNaN(x) /\ FLe(x, y))

\* `porder = np.argsort(pvals)`: porder[k] is the index of the k-th smallest
\* p-value.  The default sort is not stable, so among tied p-values the
\* order is any one the sort may produce.
ArgSorts(p) ==
    {f \in Permutations(1..Len(p)) :
        \A a \in 1..Len(p) : \A b \in 1..Len(p) :
            a < b => SortLe(p[f[a]], p[f[b]])}

\* `prank = np.empty_like(porder); prank[porder] = np.arange(1, n_obs+1)`
RankOfMutZeroBased(porder) ==
    [i \in 1..Len(porder) |->
        (CHOOSE k \in 1..Len(porder) : porder[k] = i) - 1]

RankOf(porder) ==
    [i \in 1..Len(porder) |-> CHOOSE k \in 1..Len(porder) : porder[k] = i]

\* `qvals = np.true_divide(n_obs*pvals, prank)`
QvalsOf(p, rank) ==
    [i \in 1..Len(p) |->
        FDiv(FMul(FromInt(Len(p)), p[i]), FromInt(rank[i]))]

\* get_qvals(pvals): the results it may return, with the ranks used
get_qvals(p) ==
    {[prank |-> RankOf(f), qvals |-> QvalsOf(p, RankOf(f))] : f \in ArgSorts(p)}

PvalArrays == UNION {[1..n -> PGrid] : n \in 0..MaxPvals}

InitQvals ==
    /\ pvals \in PvalArrays
    /\ prank = <<>>
    /\ qvals = <<>>
    /\ qpc = "call"

IdleQvals ==
    /\ pvals = <<>>
    /\ prank = <<>>
    /\ qvals = <<>>
    /\ qpc = "idle"

\* one call of get_qvals
GetQvals ==
    /\ qpc = "call"
    /\ \E r \in get_qvals(pvals) :
          /\ prank' = r.prank
          /\ qvals' = r.qvals
    /\ qpc' = "done"
    /\ UNCHANGED pvals
    /\ UNCHANGED notQvals

NextQvals == GetQvals

\* =============================================================== Mode A
\* largest number of pixels in the scored table
MaxPixels == 2
\* largest raw observed count of a pixel
MaxObs == 2
\* largest locally-adjusted expected of a pixel (whole counts)
MaxLaExp == 1

\* the kernels of the run (ktypes)
KTypes == {"donut", "lowleft"}

\* the FDR thresholds clustering_step is called with
FdrGrid == {Zero, Frac(1, 10), One}

\* terms of the Poisson series that are kept: enough that no tail of a
\* count up to MaxObs is truncated to nothing
PoissonTerms == MaxObs + 3

RECURSIVE Fact(_)
Fact(n) == IF n <= 0 THEN 1 ELSE n * Fact(n - 1)

RECURSIVE Pow(_, _)
Pow(b, e) == IF e <= 0 THEN 1 ELSE b * Pow(b, e - 1)

RECURSIVE SumOver(_, _, _)
\* sum of term[i] for i in lo..hi
SumOver(term, lo, hi) ==
    IF lo > hi THEN 0 ELSE term[lo] + SumOver(term, lo + 1, hi)

\* `1.0 - poisson.cdf(obs, la_exp)` of score_tile for a whole-count rate
\* la_exp: the upper tail P(X > obs) of the Poisson law, the series of
\* exp(la_exp) cut after PoissonTerms terms.  Poisson(0) is the point mass
\* at 0, whose cdf is 1 at every obs >= 0: the tail is exactly 0.
PoissonPval(obs, la) ==
    LET term == [i \in 0..PoissonTerms |->
                    Pow(la, i) * (Fact(PoissonTerms) \div Fact(i))]
    IN  Frac(SumOver(term, obs + 1, PoissonTerms),
             SumOver(term, 0, PoissonTerms))

\* a row of get_adjusted_expected's table that reaches the Poisson tests:
\* obs.raw and one finite la_exp.<k>.value per kernel
ScoredRows == [obs : 0..MaxObs, la : [KTypes -> 0..MaxLaExp]]

\* the Poisson tests of score_tile: `res_df["la_exp."+k+".pval"] = ...`
WithPvals(row) ==
    [obs |-> row.obs, la |-> row.la,
     pval |-> [k \in KTypes |-> PoissonPval(row.obs, row.la[k])]]

\* `res_df[["la_exp."+k+".qval" for k in ktypes]] <= fdr` reduced by np.all
ComplyFdr(qval, f) == \A k \in KTypes : FLe(qval[k], f)

InitModeA ==
    /\ res_df \in UNION {[1..n -> ScoredRows] : n \in 1..MaxPixels}
    /\ fdr \in FdrGrid
    /\ apc = "tile"

IdleModeA ==
    /\ res_df = <<>>
    /\ fdr = Zero
    /\ apc = "idle"

\* score_tile, its last step: the p-value columns are added to the table
ScoreTilePvals ==
    /\ apc = "tile"
    /\ res_df' = [i \in 1..Len(res_df) |-> WithPvals(res_df[i])]
    /\ apc' = "scored"
    /\ UNCHANGED fdr
    /\ UNCHANGED notModeA

\* clustering_step, up to the comply_fdr column: get_qvals per kernel over
\* the whole table, then the test against fdr
ClusteringStepFdr ==
    /\ apc = "scored"
    /\ \E q \in [KTypes -> UNION {get_qvals([i \in 1..Len(res_df) |->
                                     res_df[i].pval[k]]) : k \in KTypes}] :
          /\ \A k \in KTypes :
                q[k] \in get_qvals([i \in 1..Len(res_df) |-> res_df[i].pval[k]])
          /\ res_df' = [i \in 1..Len(res_df) |->
                [obs |-> res_df[i].obs, la |-> res_df[i].la,
                 pval |-> res_df[i].pval,
                 qval |-> [k \in KTypes |-> q[k].qvals[i]],
                 comply_fdr |->
                     ComplyFdr([k \in KTypes |-> q[k].qvals[i]], fdr)]]
    /\ apc' = "tested"
    /\ UNCHANGED fdr
    /\ UNCHANGED notModeA

NextModeA == ScoreTilePvals \/ ClusteringStepFdr

\* =============================================================== scorer
\* number of bins of the chromosome (it starts at bin 0 of the cooler)
NBins == 5
\* tile_size the tile list was generated with
TileSize == 2
\* band_to_cover (loci_separation_bins) of the run
BandToCover == 3

Bins == 0..(NBins - 1)
Two == FromInt(2)

\* the kernels dict of the run: square matrices of odd side 2w+1, given row
\* by row.  A w=1 donut (the centre row and column zeroed) and a w=1
\* lower-left quadrant.
Kernels ==
    [donut |-> <<<<1, 0, 1>>, <<0, 0, 0>>, <<1, 0, 1>>>>,
     lowleft |-> <<<<0, 0, 0>>, <<0, 0, 0>>, <<1, 0, 0>>>>]

\* half-width w of a kernel of side 2w+1
HalfWidth(kernel) == (Len(kernel) - 1) \div 2

\* the values nans_tolerated is drawn from
NansTolerated == {1, 3}

\* balancing weights of the bins: 1 everywhere, but for at most one bin that
\* is bad (NaN) or has weight 2
WeightVectors ==
    {[i \in Bins |-> One]} \union
    {[i \in Bins |-> IF i = b THEN v ELSE One] : b \in Bins, v \in {NaN, Two}}

\* the expected profile by diagonal: 1 everywhere, but for at most one
\* diagonal that is 0 or NaN
ExpectedProfiles ==
    {[d \in Bins |-> One]} \union
    {[d \in Bins |-> IF d = e THEN v ELSE One] : e \in Bins, v \in {Zero, NaN}}

\* the symmetric matrix of raw counts: 1 everywhere, but for at most one
\* pixel (and its mirror image) that is 0 or 3
RawMatrices ==
    {[c \in Bins \X Bins |-> 1]} \union
    {[c \in Bins \X Bins |->
        IF c = <<i, j>> \/ c = <<j, i>> THEN v ELSE 1] :
            i \in Bins, j \in Bins, v \in {0, 3}}

\* the coolers of the runs: any weights with any expected under uniform
\* counts, and any counts under uniform weights and expected
Coolers ==
    [weight : WeightVectors, obs : {[x \in Bins \X Bins |-> 1]},
     exp : ExpectedProfiles]
    \union
    [weight : {[i \in Bins |-> One]}, obs : RawMatrices,
     exp : {[d \in Bins |-> One]}]

\* the tiling arguments of the chromosome: pad_size is the kernel half-width
ChromTiling ==
    [start |-> 0, stop |-> NBins, step |-> TileSize,
     edge |-> HalfWidth(Kernels.donut), square |-> FALSE, band |-> BandToCover]

\* the list square_matrix_tiling yields for the chromosome, in order
square_matrix_tiling(a) ==
    LET T == TilesOf(a)
    IN  [n \in 1..(T * T) |-> SquareTile(a, (n - 1) \div T, (n - 1) % T)]

\* the list heatmap_tiles_generator_diag yields for the chromosome, in order
heatmap_tiles_generator_diag(a) ==
    SelectSeq(square_matrix_tiling(a),
              LAMBDA t : IntersectsBand(t[1], t[2], a.edge, a.band))

\* the `tiles` a step is called with: the band tiles, or the whole grid
TileLists ==
    {heatmap_tiles_generator_diag(ChromTiling), square_matrix_tiling(ChromTiling)}

\* --- get_adjusted_expected_tile_some_nans, for the tile with origin (io, jo)
\* and shape ni x nj; matrices are functions of the local cell <<a, b>>

TileCells(ni, nj) == (0..(ni - 1)) \X (0..(nj - 1))

\* `np.tril_indices_from(O_bal, k=(io-jo)-1)`: the cells with b - a <= k
LowerMutLocalDiagonal(io, jo, c) == c[2] - c[1] <= -1

Lower(io, jo, c) == c[2] - c[1] <= (io - jo) - 1

\* `np.outer(v_bal_i, v_bal_j)` at one cell
Outer(v_i, v_j, c) == FMul(v_i[c[1]], v_j[c[2]])

\* the positions (row-major, from 1) of the nonzero entries of a kernel
Support(kernel) ==
    SelectSeq([n \in 1..(Len(kernel) * Len(kernel)) |-> n],
              LAMBDA n : kernel[((n - 1) \div Len(kernel)) + 1]
                               [((n - 1) % Len(kernel)) + 1] # 0)

\* `scipy.ndimage.convolve(M, kernel, mode='constant', cval=cval, origin=0)`
\* at cell c: the sum over kernel entries (u, v) of
\* kernel[u][v] * M[a - (u - w)][b - (v - w)], with cval beyond the edges.
\* The convolved matrices are finite everywhere (NaNs are zero-filled before,
\* weights and counts are never infinite), so a zero entry of the kernel adds
\* exactly 0 and the sum runs over the kernel's support.
RECURSIVE ConvSum(_, _, _, _, _, _, _, _)
ConvSum(M, kernel, cval, ni, nj, c, sup, n) ==
    IF n = 0 THEN Zero
    ELSE LET side == Len(kernel)
             w == HalfWidth(kernel)
             u == (sup[n] - 1) \div side
             v == (sup[n] - 1) % side
             a == c[1] - (u - w)
             b == c[2] - (v - w)
             x == IF a \in 0..(ni - 1) /\ b \in 0..(nj - 1)
                  THEN M[<<a, b>>] ELSE cval
         IN  FAdd(FMul(FromInt(kernel[u + 1][v + 1]), x),
                  ConvSum(M, kernel, cval, ni, nj, c, sup, n - 1))

Convolve(M, kernel, cval, ni, nj) ==
    LET sup == Support(kernel)
    IN  [c \in TileCells(ni, nj) |->
            ConvSum(M, kernel, cval, ni, nj, c, sup, Len(sup))]

\* `(kernel != 0).astype(np.int)`
FootprintMutWholeWindow(kernel) ==
    [u \in 1..Len(kernel) |-> [v \in 1..Len(kernel) |-> 1]]

Footprint(kernel) ==
    [u \in 1..Len(kernel) |->
        [v \in 1..Len(kernel) |-> IF kernel[u][v] # 0 THEN 1 ELSE 0]]

\* the matrices the function computes before its loop over the kernels
TileMatrices(io, jo, O_raw, expected, v_i, v_j, ni, nj) ==
    LET cells == TileCells(ni, nj)
        O_bal0 == [c \in cells |-> FMul(FromInt(O_raw[c]), Outer(v_i, v_j, c))]
        O_bal1 == [c \in cells |-> IF Lower(io, jo, c) THEN NaN ELSE O_bal0[c]]
        E_bal1 == [c \in cells |-> IF Lower(io, jo, c) THEN NaN ELSE expected[c]]
        N_bal == [c \in cells |-> IsNaN(O_bal1[c]) \/ IsNaN(E_bal1[c])]
    IN  [O_bal |-> [c \in cells |-> IF N_bal[c] THEN Zero ELSE O_bal1[c]],
         E_bal |-> [c \in cells |-> IF N_bal[c] THEN Zero ELSE E_bal1[c]],
         E_raw |-> [c \in cells |-> FDiv(E_bal1[c], Outer(v_i, v_j, c))],
         N_bal |-> N_bal]

\* `Ek_raw = np.multiply(E_raw, np.divide(KO, KE))` at one cell
Ek_rawMutNoDivide(E_raw, KO, KE) == FMul(E_raw, KO)

Ek_raw(E_raw, KO, KE) == FMul(E_raw, FDiv(KO, KE))

\* the body of the loop for one kernel: KO, KE, NN and Ek_raw
KernelMatrices(m, kernel, ni, nj) ==
    LET KO == Convolve(m.O_bal, kernel, Zero, ni, nj)
        KE == Convolve(m.E_bal, kernel, Zero, ni, nj)
        NN == Convolve([c \in TileCells(ni, nj) |->
                           IF m.N_bal[c] THEN One ELSE Zero],
                       Footprint(kernel), One, ni, nj)
    IN  [KO |-> KO, KE |-> KE,
         NN |-> [c \in TileCells(ni, nj) |-> NN[c][1]],
         Ek_raw |-> [c \in TileCells(ni, nj) |->
                        Ek_raw(m.E_raw[c], KO[c], KE[c])]]

\* the row of peaks_df for local cell n (row-major, as flatten() orders them)
PeakRow(io, jo, O_raw, m, km, nj, n) ==
    LET c == <<(n - 1) \div nj, (n - 1) % nj>>
    IN  [bin1_id |-> c[1] + io,
         bin2_id |-> c[2] + jo,
         value |-> [k \in DOMAIN km |-> km[k].Ek_raw[c]],
         nnans |-> [k \in DOMAIN km |-> km[k].NN[c]],
         exp_raw |-> m.E_raw[c],
         obs_raw |-> O_raw[c]]

\* `~mask_ndx & upper_band`: every kernel's value finite, and bin1_id < bin2_id
KeepPeakMutNoBand(row) ==
    \A k \in DOMAIN row.value : IsFinite(row.value[k])

KeepPeak(row) ==
    /\ \A k \in DOMAIN row.value : IsFinite(row.value[k])
    /\ row.bin1_id < row.bin2_id

\* the function (balance_factor is None, as in scoring_and_histogramming_step): the
\* table it returns, with the matrices it computed
get_adjusted_expected_tile_some_nans(io, jo, O_raw, expected, v_i, v_j, kernels, ni, nj) ==
    LET m == TileMatrices(io, jo, O_raw, expected, v_i, v_j, ni, nj)
        km == [k \in DOMAIN kernels |-> KernelMatrices(m, kernels[k], ni, nj)]
        peaks_df == [n \in 1..(ni * nj) |-> PeakRow(io, jo, O_raw, m, km, nj, n)]
    IN  [peaks_df |-> SelectSeq(peaks_df, KeepPeak),
         locals |-> [io |-> io, jo |-> jo, ni |-> ni, nj |-> nj,
                     O_bal |-> m.O_bal, E_bal |-> m.E_bal, N_bal |-> m.N_bal,
                     KO |-> [k \in DOMAIN kernels |-> km[k].KO],
                     KE |-> [k \in DOMAIN kernels |-> km[k].KE],
                     NN |-> [k \in DOMAIN kernels |-> km[k].NN]]]

\* --- score_tile.  cooler.annotate only adds the bins' coordinates to the
\* rows and is left out.

\* the arguments score_tile passes on, sliced out of the cooler and out of
\* the Toeplitz expansion of the expected profile
TileInput(c, tile) ==
    LET io == tile[1][1]
        jo == tile[2][1]
        ni == tile[1][2] - tile[1][1]
        nj == tile[2][2] - tile[2][1]
    IN  [io |-> io, jo |-> jo, ni |-> ni, nj |-> nj,
         observed |-> [x \in TileCells(ni, nj) |-> c.obs[<<io + x[1], jo + x[2]>>]],
         expected |-> [x \in TileCells(ni, nj) |->
                          c.exp[Abs((io + x[1]) - (jo + x[2]))]],
         v_i |-> [a \in 0..(ni - 1) |-> c.weight[io + a]],
         v_j |-> [b \in 0..(nj - 1) |-> c.weight[jo + b]]]

AdjustedOf(c, tile, kernels) ==
    LET t == TileInput(c, tile)
    IN  get_adjusted_expected_tile_some_nans(t.io, t.jo, t.observed, t.expected,
                                             t.v_i, t.v_j, kernels, t.ni, t.nj)

\* `is_inside_band & does_comply_nans`
KeepScored(row, nans_tolerated, band_to_cover) ==
    /\ row.bin1_id > row.bin2_id - band_to_cover
    /\ \A k \in DOMAIN row.nnans : row.nnans[k] < nans_tolerated

\* `1.0 - poisson.cdf(res_df["obs.raw"], la_exp)` for a rate that is a
\* fraction: the tail is a function of the count and the rate, and is kept
\* as that pair (the Mode A model computes it for whole-count rates)
PoissonTail(obs, la) == [obs |-> obs, la |-> la]

\* the row with its `la_exp.<k>.pval` columns
WithTails(row) ==
    [bin1_id |-> row.bin1_id, bin2_id |-> row.bin2_id,
     value |-> row.value, nnans |-> row.nnans,
     exp_raw |-> row.exp_raw, obs_raw |-> row.obs_raw,
     pval |-> [k \in DOMAIN row.value |-> PoissonTail(row.obs_raw, row.value[k])]]

score_tile(res, nans_tolerated, band_to_cover) ==
    LET kept == SelectSeq(res, LAMBDA row :
                    KeepScored(row, nans_tolerated, band_to_cover))
    IN  [n \in 1..Len(kept) |-> WithTails(kept[n])]

\* the three steps that map score_tile over the tiles: scoring_step,
\* scoring_and_histogramming_step, scoring_and_extraction_step
StepKinds == {"score", "hist", "extract"}

\* whether the step's job gives score_tile its balance_factor parameter,
\* which has no default: scoring_step's partial leaves it out, and every
\* call of its job raises TypeError
PassesBalanceFactor(step) == step # "score"

\* `band_to_cover=loci_separation_bins` in the job of every step
BoundBandToCover(step, loci_separation_bins) == loci_separation_bins

InitScore ==
    /\ clr \in Coolers
    /\ sargs \in [step : StepKinds,
                  kernels : {Kernels},
                  nans_tolerated : NansTolerated,
                  loci_separation_bins : {BandToCover},
                  tiles : TileLists]
    /\ result = <<>>
    /\ frame = <<>>
    /\ chunks = <<>>
    /\ spc = "run"

IdleScore ==
    /\ clr = <<>>
    /\ sargs = <<>>
    /\ result = <<>>
    /\ frame = <<>>
    /\ chunks = <<>>
    /\ spc = "idle"

\* `map_(job, tiles)`, serial: the next tile of the list is scored
ScoreTile ==
    /\ spc = "run"
    /\ PassesBalanceFactor(sargs.step)
    /\ Len(chunks) < Len(sargs.tiles)
    /\ LET res == AdjustedOf(clr, sargs.tiles[Len(chunks) + 1], sargs.kernels)
       IN  /\ result' = res.peaks_df
           /\ frame' = res.locals
           /\ chunks' = Append(chunks,
                  score_tile(res.peaks_df, sargs.nans_tolerated,
                             BoundBandToCover(sargs.step,
                                              sargs.loci_separation_bins)))
    /\ UNCHANGED <<clr, sargs, spc>>
    /\ UNCHANGED notScore

\* `map_(job, tiles)` of scoring_step: the call of score_tile for the first
\* tile raises TypeError, and the step raises it
ScoreTileRaises ==
    /\ spc = "run"
    /\ ~PassesBalanceFactor(sargs.step)
    /\ Len(chunks) < Len(sargs.tiles)
    /\ spc' = "raised"
    /\ UNCHANGED <<clr, sargs, result, frame, chunks>>
    /\ UNCHANGED notScore

\* the tile list is exhausted
ScoreDone ==
    /\ spc = "run"
    /\ Len(chunks) = Len(sargs.tiles)
    /\ spc' = "done"
    /\ UNCHANGED <<clr, sargs, result, frame, chunks>>
    /\ UNCHANGED notScore

NextScore == ScoreTile \/ ScoreTileRaises \/ ScoreDone

\* ================================================ lambda-chunk histograms
\* largest raw count of a scored pixel
MaxCount == 1
\* largest number of tiles of a step
MaxTiles == 3

NegInf == <<-1, 0>>
Half == Frac(1, 2)
Three == FromInt(3)

\* `ledges`: the edges of the lambda bins, from -inf to +inf; bin b is the
\* interval (ledges[b], ledges[b+1]]
Ledges == <<NegInf, One, Two, Inf>>

LBins(ledges) == 1..(Len(ledges) - 1)

\* `pd.cut(la, ledges)`: the bin whose right-closed interval holds la
LBinMutLeftClosed(la, ledges) ==
    CHOOSE b \in LBins(ledges) : FLe(ledges[b], la) /\ FLt(la, ledges[b + 1])

LBin(la, ledges) ==
    CHOOSE b \in LBins(ledges) : FLt(ledges[b], la) /\ FLe(la, ledges[b + 1])

\* the order `for k in kernels` visits the kernels in
KernelOrder == <<"donut", "lowleft">>

\* the la_exp values of a scored pixel, per kernel: in the lowest bin, in
\* the middle bin for one kernel, in the top bin for the other
LowLa == [k \in KTypes |-> IF k = "donut" THEN Half ELSE One]
MidLa == [k \in KTypes |-> IF k = "donut" THEN Two ELSE Half]
TopLa == [k \in KTypes |-> IF k = "donut" THEN One ELSE Three]

\* the tables score_tile returns for a tile, as far as the histograms read
\* them (obs.raw and la_exp.<k>.value): no pixel, one pixel of any count, two
\* pixels, or a pixel beyond the last edge
TileTables ==
    {<<>>}
    \union {<<[obs |-> o, la |-> LowLa]>> : o \in 0..MaxCount}
    \union {<<[obs |-> MaxCount, la |-> MidLa], [obs |-> 0, la |-> LowLa]>>}
    \union {<<[obs |-> 1, la |-> TopLa]>>}

RECURSIVE MaxOf(_)
MaxOf(S) ==
    LET x == CHOOSE y \in S : TRUE
    IN  IF S = {x} THEN x ELSE Max(x, MaxOf(S \ {x}))

\* histogram_scored_pixels for one kernel: a frame with one column per
\* lambda bin (the groupby over the categorical visits every bin) and one
\* row per count 0..max(obs.raw); cell <<r, b>> counts the pixels of bin b
\* whose obs.raw is r.  An empty table gives a frame without rows.
KernelHist(scored_df, k, ledges) ==
    LET rows == IF Len(scored_df) = 0 THEN {}
                ELSE 0..MaxOf({scored_df[i].obs : i \in 1..Len(scored_df)})
    IN  [c \in rows \X LBins(ledges) |->
            Cardinality({i \in 1..Len(scored_df) :
                /\ scored_df[i].obs = c[1]
                /\ LBin(scored_df[i].la[k], ledges) = c[2]})]

histogram_scored_pixels(scored_df, kernels, ledges) ==
    [k \in kernels |-> KernelHist(scored_df, k, ledges)]

\* `hx[k].add(hy[k], fill_value=0).astype(np.integer)`: the frames are
\* aligned on the union of their rows (both carry every column), a cell
\* that is absent from one frame counts as 0
AddFillMutLeftRows(x, y) ==
    [c \in DOMAIN x |-> x[c] + (IF c \in DOMAIN y THEN y[c] ELSE 0)]

AddFill(x, y) ==
    [c \in DOMAIN x \union DOMAIN y |->
        (IF c \in DOMAIN x THEN x[c] ELSE 0)
        + (IF c \in DOMAIN y THEN y[c] ELSE 0)]

_sum_hists(hx, hy) == [k \in DOMAIN hx |-> AddFill(hx[k], hy[k])]

\* `reduce(_sum_hists, hchunks)` of a non-empty sequence
RECURSIVE Reduce(_)
Reduce(hs) ==
    IF Len(hs) = 1 THEN hs[1]
    ELSE _sum_hists(Reduce(SubSeq(hs, 1, Len(hs) - 1)), hs[Len(hs)])

\* `final_hist[k].iloc[:,-1].sum()`: the mass of the last column
TopMass(h, ledges) ==
    LET top == Len(ledges) - 1
        rows == {c[1] : c \in DOMAIN h}
        RECURSIVE Total(_)
        Total(R) == IF R = {} THEN 0
                    ELSE LET r == CHOOSE x \in R : TRUE
                         IN  h[<<r, top>>] + Total(R \ {r})
    IN  Total(rows)

\* `final_hist[k].drop(columns=last_la_exp_bin)`
DropTopMutDropFirst(h, ledges) ==
    [c \in {d \in DOMAIN h : d[2] # 1} |-> h[c]]

DropTop(h, ledges) ==
    [c \in {d \in DOMAIN h : d[2] # Len(ledges) - 1} |-> h[c]]

\* the kernels, in loop order, whose top bin is not empty
RECURSIVE FirstFailing(_, _, _)
FirstFailing(h, ledges, n) ==
    IF n > Len(KernelOrder) THEN 0
    ELSE IF TopMass(h[KernelOrder[n]], ledges) # 0 THEN n
    ELSE FirstFailing(h, ledges, n + 1)

InitHist ==
    /\ hscored \in UNION {[1..n -> TileTables] : n \in 1..MaxTiles}
    /\ hchunks = <<>>
    /\ final_hist = <<>>
    /\ hout = <<>>
    /\ herr = <<>>
    /\ hpc = "map"

IdleHist ==
    /\ hscored = <<>>
    /\ hchunks = <<>>
    /\ final_hist = <<>>
    /\ hout = <<>>
    /\ herr = <<>>
    /\ hpc = "idle"

\* `job(tile)` of the next tile: to_hist of the table to_score returned
HistJob ==
    /\ hpc = "map"
    /\ Len(hchunks) < Len(hscored)
    /\ hchunks' = Append(hchunks,
           histogram_scored_pixels(hscored[Len(hchunks) + 1], KTypes, Ledges))
    /\ UNCHANGED <<hscored, final_hist, hout, herr, hpc>>
    /\ UNCHANGED notHist

\* `final_hist = reduce(_sum_hists, hchunks)`
ReduceHists ==
    /\ hpc = "map"
    /\ Len(hchunks) = Len(hscored)
    /\ final_hist' = Reduce(hchunks)
    /\ hpc' = "check"
    /\ UNCHANGED <<hscored, hchunks, hout, herr>>
    /\ UNCHANGED notHist

\* the loop over the kernels, when an assert fails: the AssertionError
\* carries the kernel and the bin
TopBinAssertFails ==
    /\ hpc = "check"
    /\ FirstFailing(final_hist, Ledges, 1) # 0
    /\ herr' = <<KernelOrder[FirstFailing(final_hist, Ledges, 1)],
                 <<Ledges[Len(Ledges) - 1], Ledges[Len(Ledges)]>>>>
    /\ hpc' = "raised"
    /\ UNCHANGED <<hscored, hchunks, final_hist, hout>>
    /\ UNCHANGED notHist

\* the loop over the kernels, when every assert passes: every kernel's last
\* column is dropped and the histograms are returned
DropTopBins ==
    /\ hpc = "check"
    /\ FirstFailing(final_hist, Ledges, 1) = 0
    /\ hout' = [k \in DOMAIN final_hist |-> DropTop(final_hist[k], Ledges)]
    /\ hpc' = "returned"
    /\ UNCHANGED <<hscored, hchunks, final_hist, herr>>
    /\ UNCHANGED notHist

NextHist == HistJob \/ ReduceHists \/ TopBinAssertFails \/ DropTopBins

\* ================================================ extract_scored_pixels
\* the thresholds on obs.raw a lambda bin may carry
ThresholdGrid == {0, 1}

\* `thresholds`: per kernel, a Series of thresholds indexed by the lambda bins
ThresholdDicts == [KTypes -> [LBins(Ledges) -> ThresholdGrid]]

\* the rows of scored_df that extract_scored_pixels reads: a pixel (its
\* position in the table stands for its other columns), obs.raw and
\* la_exp.<k>.value
ExtractRows == [obs : 0..MaxCount, la : {LowLa, MidLa, TopLa}]

\* scored_df: tables of up to two pixels
ExtractTables ==
    {<<>>} \union {<<r>> : r \in ExtractRows}
    \union {<<r1, r2>> : r1 \in ExtractRows, r2 \in {[obs |-> 1, la |-> MidLa]}}

\* `thresholds[k].loc[la]`: the threshold of the interval that holds la
ThresholdAt(thresholds, k, la, ledges) == thresholds[k][LBin(la, ledges)]

\* `comply_fdr_k`, for one row
ComplyFdrKMutGe(row, thresholds, k, ledges) ==
    row.obs >= ThresholdAt(thresholds, k, row.la[k], ledges)

ComplyFdrK(row, thresholds, k, ledges) ==
    row.obs > ThresholdAt(thresholds, k, row.la[k], ledges)

\* `scored_df[comply_fdr_list]`, comply_fdr_list being the logical_and of
\* comply_fdr_k over the kernels
extract_scored_pixels(scored_df, kernels, thresholds, ledges) ==
    SelectSeq(scored_df,
              LAMBDA row : \A k \in kernels : ComplyFdrK(row, thresholds, k, ledges))

InitExtract ==
    /\ xscored \in ExtractTables
    /\ xthresholds \in ThresholdDicts
    /\ xout = <<>>
    /\ xpc = "call"

IdleExtract ==
    /\ xscored = <<>>
    /\ xthresholds = <<>>
    /\ xout = <<>>
    /\ xpc = "idle"

\* the call of extract_scored_pixels
ExtractScoredPixels ==
    /\ xpc = "call"
    /\ xout' = extract_scored_pixels(xscored, KTypes, xthresholds, Ledges)
    /\ xpc' = "done"
    /\ UNCHANGED <<xscored, xthresholds>>
    /\ UNCHANGED notExtract

NextExtract == ExtractScoredPixels

\* ================================== the three steps and their worker pool
\* scoring_step, scoring_and_histogramming_step and
\* scoring_and_extraction_step map a per-tile job over the tile list, with
\* the builtin map (nproc = 1) or with pool.imap of a pool of nproc workers.
MaxJobs == 3
MaxNproc == 2

\* the order of the chromosome names under sort_values
ChromRank == [c \in {"chr1", "chr2"} |-> IF c = "chr1" THEN 1 ELSE 2]

PoolRow(chrom, start1, start2, obs, la) ==
    [chrom |-> chrom, start1 |-> start1, start2 |-> start2,
     obs |-> obs, la |-> la]

\* the tables score_tile returns for a tile
PoolTables ==
    { <<PoolRow("chr1", 1, 3, 1, LowLa)>>,
      <<PoolRow("chr1", 0, 2, 1, LowLa), PoolRow("chr2", 0, 2, 0, MidLa)>>,
      <<PoolRow("chr1", 0, 3, 1, TopLa)>> }

\* a tile, as far as the step sees it: its job raises, or score_tile
\* returns the table df
PoolTiles ==
    {[ok |-> FALSE, df |-> <<>>]} \union {[ok |-> TRUE, df |-> t] : t \in PoolTables}

\* the thresholds scoring_and_extraction_step was given
PoolThresholds == [k \in KTypes |-> [b \in LBins(Ledges) |-> 0]]

\* `job`: to_score, to_hist(to_score(tile)) or to_extract(to_score(tile))
JobResult(kind, tile) ==
    IF kind = "score" THEN tile.df
    ELSE IF kind = "hist" THEN histogram_scored_pixels(tile.df, KTypes, Ledges)
    ELSE extract_scored_pixels(tile.df, KTypes, PoolThresholds, Ledges)

\* whether job(tile) returns.  The job of scoring_step is
\* partial(score_tile, ...) without balance_factor, a parameter score_tile
\* has no default for: every call raises TypeError.  The other two steps
\* pass it.
JobOk(kind, tile) == PassesBalanceFactor(kind) /\ tile.ok

\* `if nproc > 1: pool = mp.Pool(nproc)`
CreatesPool(nproc) == nproc > 1

\* `finally: if nproc > 1: pool.close()`
ClosesPoolMutMoreThanTwo(nproc) == nproc > 2

ClosesPool(nproc) == nproc > 1

\* `int(np.ceil(len(tiles)/nproc))`
ChunkSize(n, nproc) == (n + nproc - 1) \div nproc

\* the tiles that imap puts in one task with tile i
ChunkWith(i, n, nproc) ==
    {j \in 1..n : (j - 1) \div ChunkSize(n, nproc) = (i - 1) \div ChunkSize(n, nproc)}

NoErr == [kind |-> "none", tile |-> 0, kernel |-> ""]

Err(kind, tile, kernel) == [kind |-> kind, tile |-> tile, kernel |-> kernel]

\* `pd.concat(filtered_pix_chunks, ignore_index=True)`
RECURSIVE Concat(_)
Concat(dfs) ==
    IF Len(dfs) = 0 THEN <<>>
    ELSE Concat(SubSeq(dfs, 1, Len(dfs) - 1)) \o dfs[Len(dfs)]

\* the sort key (chrom1, chrom2, start1, start2); the pixels are cis
KeyLess(a, b) ==
    \/ ChromRank[a.chrom] < ChromRank[b.chrom]
    \/ /\ a.chrom = b.chrom
       /\ \/ a.start1 < b.start1
          \/ a.start1 = b.start1 /\ a.start2 < b.start2

\* `.sort_values(by=[...]).reset_index(drop=True)`: a stable sort
sort_valuesMutNoSort(df) == df

RECURSIVE sort_values(_)
sort_values(df) ==
    IF Len(df) <= 1 THEN df
    ELSE LET front == sort_values(SubSeq(df, 1, Len(df) - 1))
             x == df[Len(df)]
             at == Cardinality({i \in 1..Len(front) : ~KeyLess(x, front[i])})
         IN  SubSeq(front, 1, at) \o <<x>> \o SubSeq(front, at + 1, Len(front))

InitPool ==
    /\ pkind \in StepKinds
    /\ pnproc \in 1..MaxNproc
    /\ ptiles \in UNION {[1..n -> PoolTiles] : n \in 0..MaxJobs}
    /\ ppool = "none"
    /\ psub = FALSE
    /\ pstat = [i \in DOMAIN ptiles |-> "todo"]
    /\ pexec = <<>>
    /\ pacc = <<>>
    /\ pres = <<>>
    /\ perr = NoErr
    /\ ppc = "setup"

IdlePool ==
    /\ pkind = "idle"
    /\ pnproc = 0
    /\ ptiles = <<>>
    /\ ppool = "none"
    /\ psub = FALSE
    /\ pstat = <<>>
    /\ pexec = <<>>
    /\ pacc = <<>>
    /\ pres = <<>>
    /\ perr = NoErr
    /\ ppc = "idle"

\* a job runs: in a worker, or in the caller when map is the builtin
RunJob(i) ==
    /\ pstat' = [pstat EXCEPT ![i] = IF JobOk(pkind, ptiles[i]) THEN "ok" ELSE "failed"]
    /\ pexec' = Append(pexec, i)

\* `if nproc > 1: pool = mp.Pool(nproc); map_ = pool.imap ... else: map_ = map`
PoolSetup ==
    /\ ppc = "setup"
    /\ ppool' = IF CreatesPool(pnproc) THEN "open" ELSE "none"
    /\ ppc' = "map"
    /\ UNCHANGED <<pkind, pnproc, ptiles, psub, pstat, pexec, pacc, pres, perr>>
    /\ UNCHANGED notPool

\* `map_(job, tiles, **map_kwargs)`, the first statement of the try block:
\* imap refuses a chunksize below 1 (an empty tile list) and otherwise
\* hands the tasks to the pool; the builtin map does nothing yet.  In
\* scoring_and_histogramming_step the try block ends here.
MapCall ==
    /\ ppc = "map"
    /\ IF CreatesPool(pnproc) /\ ChunkSize(Len(ptiles), pnproc) < 1
       THEN /\ perr' = Err("chunksize", 0, "")
            /\ ppc' = "finally"
            /\ UNCHANGED psub
       ELSE /\ psub' = CreatesPool(pnproc)
            /\ ppc' = IF pkind = "hist" THEN "finally" ELSE "iterate"
            /\ UNCHANGED perr
    /\ UNCHANGED <<pkind, pnproc, ptiles, ppool, pstat, pexec, pacc, pres>>
    /\ UNCHANGED notPool

\* a worker runs the next job of the task it holds (mapstar stops a task at
\* its first failing job).  close() lets the workers go on, and nothing in
\* the steps calls terminate().
WorkerRunsJob ==
    /\ psub
    /\ \E i \in DOMAIN ptiles :
          /\ pstat[i] = "todo"
          /\ \A j \in ChunkWith(i, Len(ptiles), pnproc) : j < i => pstat[j] = "ok"
          /\ RunJob(i)
    /\ UNCHANGED <<pkind, pnproc, ptiles, ppool, psub, pacc, pres, perr, ppc>>
    /\ UNCHANGED notPool

\* where an exception raised while iterating goes: the iteration is inside
\* the try block, but in scoring_and_histogramming_step it is after it
RaisedFromIteration(kind) == IF kind = "hist" THEN "raised" ELSE "finally"

\* the caller takes the next result, in tile order: the builtin map runs
\* the job now; imap waits for the task of that tile and re-raises its
\* exception
NextItem ==
    /\ ppc = "iterate"
    /\ Len(pacc) < Len(ptiles)
    /\ LET i == Len(pacc) + 1
           chunk == ChunkWith(i, Len(ptiles), pnproc)
       IN  IF ~CreatesPool(pnproc)
           THEN /\ RunJob(i)
                /\ IF JobOk(pkind, ptiles[i])
                   THEN /\ pacc' = Append(pacc, JobResult(pkind, ptiles[i]))
                        /\ UNCHANGED <<perr, ppc>>
                   ELSE /\ perr' = Err("job", i, "")
                        /\ ppc' = RaisedFromIteration(pkind)
                        /\ UNCHANGED pacc
           ELSE /\ \/ \E j \in chunk : pstat[j] = "failed"
                   \/ \A j \in chunk : pstat[j] = "ok"
                /\ IF \A j \in chunk : pstat[j] = "ok"
                   THEN /\ pacc' = Append(pacc, JobResult(pkind, ptiles[i]))
                        /\ UNCHANGED <<perr, ppc>>
                   ELSE /\ perr' = Err("job", CHOOSE j \in chunk : pstat[j] = "failed", "")
                        /\ ppc' = RaisedFromIteration(pkind)
                        /\ UNCHANGED pacc
                /\ UNCHANGED <<pstat, pexec>>
    /\ UNCHANGED <<pkind, pnproc, ptiles, ppool, psub, pres>>
    /\ UNCHANGED notPool

\* the results are exhausted.  scoring_step has appended every chunk to the
\* file; scoring_and_extraction_step concatenates (pd.concat refuses an
\* empty list); scoring_and_histogramming_step reduces (reduce refuses an
\* empty iterable), checks the top bins and drops them.
EndOfItems ==
    /\ ppc = "iterate"
    /\ Len(pacc) = Len(ptiles)
    /\ IF pkind = "score"
       THEN /\ ppc' = "finally"
            /\ UNCHANGED <<pres, perr>>
       ELSE IF pkind = "extract"
       THEN /\ ppc' = "finally"
            /\ IF Len(pacc) = 0
               THEN perr' = Err("concat", 0, "") /\ UNCHANGED pres
               ELSE pres' = Concat(pacc) /\ UNCHANGED perr
       ELSE IF Len(pacc) = 0
       THEN /\ perr' = Err("reduce", 0, "")
            /\ ppc' = "raised"
            /\ UNCHANGED pres
       ELSE LET final == Reduce(pacc)
                failing == FirstFailing(final, Ledges, 1)
            IN  IF failing # 0
                THEN /\ perr' = Err("topbin", 0, KernelOrder[failing])
                     /\ ppc' = "raised"
                     /\ UNCHANGED pres
                ELSE /\ pres' = [k \in DOMAIN final |-> DropTop(final[k], Ledges)]
                     /\ ppc' = "returned"
                     /\ UNCHANGED perr
    /\ UNCHANGED <<pkind, pnproc, ptiles, ppool, psub, pstat, pexec, pacc>>
    /\ UNCHANGED notPool

\* the finally block, and what follows it: the pending exception goes on to
\* the caller; scoring_and_histogramming_step starts to reduce; scoring_step
\* returns; scoring_and_extraction_step sorts and returns
Finally ==
    /\ ppc = "finally"
    /\ ppool' = IF ClosesPool(pnproc) THEN "closed" ELSE ppool
    /\ IF perr # NoErr
       THEN ppc' = "raised" /\ UNCHANGED pres
       ELSE IF pkind = "hist"
       THEN ppc' = "iterate" /\ UNCHANGED pres
       ELSE IF pkind = "score"
       THEN ppc' = "returned" /\ UNCHANGED pres
       ELSE ppc' = "returned" /\ pres' = sort_values(pres)
    /\ UNCHANGED <<pkind, pnproc, ptiles, psub, pstat, pexec, pacc, perr>>
    /\ UNCHANGED notPool

NextPool == PoolSetup \/ MapCall \/ WorkerRunsJob \/ NextItem \/ EndOfItems \/ Finally

\* ================================ clustering_step, clustering_step_local
\* the most pixels a clustered table holds
MaxClustered == 3

\* expected_chroms
ExpectedChroms == <<"chr1", "chr2">>

\* a pixel that reaches the clustering: its chromosome (cis), obs.raw and
\* `blob`, the label Birch gives it among the pixels of its chromosome
\* (Birch is sklearn's: any labelling is taken as possible)
ClusterPixels == [chrom : {"chr1", "chr2"}, obs : 1..2, blob : 0..1]

\* the ways to cut n rows in at most two chunks: the sizes of the chunks
Chunkings(n) == {<<n>>} \union {<<a, n - a>> : a \in 1..(n - 1)}

\* `reset_index(drop=True)`: the rows get the index 0..n-1; `pix` tells the
\* pixels of a run apart, `first` being the number of pixels before the table
Indexed(rows, first) ==
    [i \in 1..Len(rows) |->
        [idx |-> i - 1, pix |-> first + i, chrom |-> rows[i].chrom,
         obs |-> rows[i].obs, blob |-> rows[i].blob]]

\* `pd.read_hdf(scores_file, 'results')` of the file scoring_step wrote:
\* every chunk was appended with the index score_tile gave it
RECURSIVE read_hdf(_, _, _)
read_hdf(rows, sizes, first) ==
    IF Len(sizes) = 0 THEN <<>>
    ELSE Indexed(SubSeq(rows, first + 1, first + sizes[1]), first)
         \o read_hdf(rows, Tail(sizes), first + sizes[1])

\* clust_2D_pixels: a frame on the index of pixels_df with c_label and
\* c_size (the centroid columns are left out)
clust_2D_pixels(pixels_df) ==
    [i \in 1..Len(pixels_df) |->
        [idx |-> pixels_df[i].idx,
         c_label |-> pixels_df[i].blob,
         c_size |-> Cardinality({j \in 1..Len(pixels_df) :
                        pixels_df[j].blob = pixels_df[i].blob})]]

\* the loop over expected_chroms and `pd.concat(pixel_clust_list)`
RECURSIVE PixelClust(_, _)
PixelClust(df, chroms) ==
    IF Len(chroms) = 0 THEN <<>>
    ELSE clust_2D_pixels(SelectSeq(df, LAMBDA r : r.chrom = chroms[1]))
         \o PixelClust(df, Tail(chroms))

\* the value of c_label and c_size in a row without a match
NaNLabel == 0 - 1

Joined(l, c_label, c_size) ==
    [idx |-> l.idx, pix |-> l.pix, chrom |-> l.chrom, obs |-> l.obs,
     blob |-> l.blob, c_label |-> c_label, c_size |-> c_size]

\* `pd.merge(left, right, how='left', left_index=True, right_index=True)`:
\* a left row is joined to every right row that carries its index label
RECURSIVE Merge(_, _)
Merge(left, right) ==
    IF Len(left) = 0 THEN <<>>
    ELSE LET l == left[1]
             hits == SelectSeq(right, LAMBDA r : r.idx = l.idx)
         IN  (IF Len(hits) = 0 THEN <<Joined(l, NaNLabel, NaNLabel)>>
              ELSE [h \in 1..Len(hits) |->
                       Joined(l, hits[h].c_label, hits[h].c_size)])
             \o Merge(Tail(left), right)

\* the keys of `df.groupby(["chrom1", "chrom2", "c_label"])`, in sorted order
GroupKeys(df) ==
    {<<df[i].chrom, df[i].c_label>> : i \in {j \in 1..Len(df) : df[j].c_label # NaNLabel}}

KeyBefore(a, b) ==
    \/ ChromRank[a[1]] < ChromRank[b[1]]
    \/ a[1] = b[1] /\ a[2] < b[2]

RECURSIVE SortedKeys(_)
SortedKeys(S) ==
    IF S = {} THEN <<>>
    ELSE LET lo == CHOOSE a \in S : \A b \in S \ {a} : KeyBefore(a, b)
         IN  <<lo>> \o SortedKeys(S \ {lo})

\* `chrom_clust_group["obs.raw"].idxmax()` for one group: the index label of
\* the first row of the group with the largest obs.raw
IdxMax(df, key) ==
    LET members == {i \in 1..Len(df) : <<df[i].chrom, df[i].c_label>> = key}
        best == CHOOSE i \in members :
                    /\ \A j \in members : df[j].obs <= df[i].obs
                    /\ \A j \in members : df[j].obs = df[i].obs => i <= j
    IN  df[best].idx

\* `df.loc[labels]`: for every label, every row of df that carries it
RECURSIVE Loc(_, _)
Loc(df, labels) ==
    IF Len(labels) = 0 THEN <<>>
    ELSE SelectSeq(df, LAMBDA r : r.idx = labels[1]) \o Loc(df, Tail(labels))

\* the end of both steps: concat, merge, groupby, idxmax, loc
Centroids(df, chroms) ==
    LET merged == Merge(df, PixelClust(df, chroms))
        keys == SortedKeys(GroupKeys(merged))
    IN  Loc(merged, [g \in 1..Len(keys) |-> IdxMax(merged, keys[g])])

\* clustering_step hands every expected chromosome to clust_2D_pixels, and
\* Birch refuses an empty array; clustering_step_local skips the chromosome
SomeChromEmpty(df, chroms) ==
    \E c \in 1..Len(chroms) : \A i \in 1..Len(df) : df[i].chrom # chroms[c]

InitCluster ==
    /\ cmode \in {"file", "local"}
    /\ crows \in UNION {[1..n -> ClusterPixels] : n \in 1..MaxClustered}
    /\ csizes \in Chunkings(Len(crows))
    /\ cmode = "local" => Len(csizes) = 1
    /\ cdf = <<>>
    /\ centroids = <<>>
    /\ cpc = "call"

IdleCluster ==
    /\ cmode = "idle"
    /\ crows = <<>>
    /\ csizes = <<>>
    /\ cdf = <<>>
    /\ centroids = <<>>
    /\ cpc = "idle"

\* clustering_step on the file scoring_step wrote, tile by tile.  The rows
\* are the ones with comply_fdr (the columns clustering_step adds before
\* are those of ClusteringStepFdr).
ClusteringStep ==
    /\ cpc = "call"
    /\ cmode = "file"
    /\ cdf' = read_hdf(crows, csizes, 0)
    /\ IF SomeChromEmpty(cdf', ExpectedChroms)
       THEN cpc' = "raised" /\ UNCHANGED centroids
       ELSE cpc' = "returned" /\ centroids' = Centroids(cdf', ExpectedChroms)
    /\ UNCHANGED <<cmode, crows, csizes>>
    /\ UNCHANGED notCluster

\* clustering_step_local on the table scoring_and_extraction_step returned
\* (sorted, with the index reset)
ClusteringStepLocal ==
    /\ cpc = "call"
    /\ cmode = "local"
    /\ cdf' = Indexed(crows, 0)
    /\ centroids' = Centroids(cdf', ExpectedChroms)
    /\ cpc' = "returned"
    /\ UNCHANGED <<cmode, crows, csizes>>
    /\ UNCHANGED notCluster

NextCluster == ClusteringStep \/ ClusteringStepLocal

\* ======================================================= thresholding_step
\* the kernels thresholding_step names
ThreshKernels == {"donut", "vertical", "horizontal", "lowleft"}

enrichment_factor_1 == Frac(3, 2)
enrichment_factor_2 == Frac(7, 4)
enrichment_factor_3 == FromInt(2)
FDR_orphan_threshold == Frac(1, 50)

\* the columns get_adjusted_expected_tile_some_nans and score_tile give a
\* table: the side-output column only `if balance_factor and
\* kernel_name == "lowleft"`
ScoreColumns(balance_factor) ==
    {"chrom1", "start1", "end1", "weight1", "chrom2", "start2", "end2",
     "weight2", "bin1_id", "bin2_id", "exp.raw", "obs.raw"}
    \union {"la_exp." \o k \o ".value" : k \in ThreshKernels}
    \union {"la_exp." \o k \o ".nnans" : k \in ThreshKernels}
    \union {"la_exp." \o k \o ".pval" : k \in ThreshKernels}
    \union (IF balance_factor THEN {"factor_balance.lowleft.KerObs"} ELSE {})

\* the columns of a centroid table: those of the scored table, the
\* q-values, and the columns of the clustering
CentroidColumns(balance_factor) ==
    ScoreColumns(balance_factor)
    \union {"la_exp." \o k \o ".qval" : k \in ThreshKernels}
    \union {"cstart1", "cstart2", "c_label", "c_size"}

columns_for_output ==
    {"chrom1", "start1", "end1", "chrom2", "start2", "end2", "cstart1",
     "cstart2", "c_label", "c_size", "obs.raw", "exp.raw",
     "la_exp.donut.value", "la_exp.vertical.value",
     "la_exp.horizontal.value", "la_exp.lowleft.value",
     "factor_balance.lowleft.KerObs", "la_exp.donut.qval",
     "la_exp.vertical.qval", "la_exp.horizontal.qval",
     "la_exp.lowleft.qval"}

\* the values of a centroid the filter reads
ThreshLa ==
    [donut : {Frac(1, 2), Frac(4, 7), One},
     lowleft : {Frac(1, 2), Frac(4, 7), One},
     vertical : {Frac(2, 3), One},
     horizontal : {Frac(2, 3), One}]

ThreshQvals == [ThreshKernels -> {Zero, Frac(1, 100)}]

ThreshRows == [obs : 1..MaxObs, la : ThreshLa, qval : ThreshQvals, c_size : 1..2]

\* a centroid every test lets through
PassingRow ==
    [obs |-> 2,
     la |-> [donut |-> Frac(1, 2), lowleft |-> Frac(1, 2),
             vertical |-> One, horizontal |-> One],
     qval |-> [k \in ThreshKernels |-> Zero],
     c_size |-> 2]

ThreshTables == {<<r>> : r \in ThreshRows} \union {<<PassingRow, r>> : r \in ThreshRows}

\* `enrichment_fdr_comply`, for one row
enrichment_fdr_complyMutStrictOrphan(row) ==
    /\ FLt(FMul(enrichment_factor_2, row.la.lowleft), FromInt(row.obs))
    /\ FLt(FMul(enrichment_factor_2, row.la.donut), FromInt(row.obs))
    /\ FLt(FMul(enrichment_factor_1, row.la.vertical), FromInt(row.obs))
    /\ FLt(FMul(enrichment_factor_1, row.la.horizontal), FromInt(row.obs))
    /\ \/ FLt(FMul(enrichment_factor_3, row.la.lowleft), FromInt(row.obs))
       \/ FLt(FMul(enrichment_factor_3, row.la.donut), FromInt(row.obs))
    /\ \/ row.c_size > 1
       \/ FLt(FAdd(FAdd(FAdd(row.qval.lowleft, row.qval.donut),
                        row.qval.vertical), row.qval.horizontal),
              FDR_orphan_threshold)

enrichment_fdr_comply(row) ==
    /\ FLt(FMul(enrichment_factor_2, row.la.lowleft), FromInt(row.obs))
    /\ FLt(FMul(enrichment_factor_2, row.la.donut), FromInt(row.obs))
    /\ FLt(FMul(enrichment_factor_1, row.la.vertical), FromInt(row.obs))
    /\ FLt(FMul(enrichment_factor_1, row.la.horizontal), FromInt(row.obs))
    /\ \/ FLt(FMul(enrichment_factor_3, row.la.lowleft), FromInt(row.obs))
       \/ FLt(FMul(enrichment_factor_3, row.la.donut), FromInt(row.obs))
    /\ \/ row.c_size > 1
       \/ FLe(FAdd(FAdd(FAdd(row.qval.lowleft, row.qval.donut),
                        row.qval.vertical), row.qval.horizontal),
              FDR_orphan_threshold)

InitThresh ==
    /\ tfactor \in BOOLEAN
    /\ tcentroids \in ThreshTables
    /\ tcols = CentroidColumns(tfactor)
    /\ tout = <<>>
    /\ toutcols = {}
    /\ thpc = "call"

IdleThresh ==
    /\ tfactor = FALSE
    /\ tcentroids = <<>>
    /\ tcols = {}
    /\ tout = <<>>
    /\ toutcols = {}
    /\ thpc = "idle"

\* thresholding_step: the rows are filtered, then `out[columns_for_output]`
\* raises KeyError when the table lacks one of the columns
ThresholdingStep ==
    /\ thpc = "call"
    /\ IF columns_for_output \subseteq tcols
       THEN /\ tout' = SelectSeq(tcentroids, enrichment_fdr_comply)
            /\ toutcols' = columns_for_output
            /\ thpc' = "returned"
       ELSE /\ thpc' = "raised"
            /\ UNCHANGED <<tout, toutcols>>
    /\ UNCHANGED <<tfactor, tcentroids, tcols>>
    /\ UNCHANGED notThresh

NextThresh == ThresholdingStep

\* ======================================== the balancing-weight column
\* make_diag_tables and count_bad_pixels_per_block (expected.py) look the
\* column up themselves; the scoring steps hand bal_v_name='weight' to
\* score_tile, which reads it in every tile job.
MaxWeightJobs == 2

WeightEntries ==
    {"make_diag_tables", "count_bad_pixels_per_block", "score", "hist", "extract"}

\* the names a weight column can have
WeightNames == {"weight", "KR"}

\* `"Balancing weight {weight_name} not found!"`: a plain string literal, not
\* an f-string, so the braces and the words between them stay as written
NotFoundMessage(weight_name) ==
    <<"Balancing weight ", "{weight_name}", " not found!">>

\* the KeyError pandas raises for `clr.bins()[...][bal_v_name]`: its message
\* is the key
PandasKeyError(key) == <<key>>

\* the TypeError of a score_tile call without balance_factor
MissingArgument == <<"score_tile() missing 1 required positional argument: ", "balance_factor">>

InitWeight ==
    /\ wentry \in WeightEntries
    /\ wname \in WeightNames
    /\ wentry \in StepKinds => wname = "weight"
    /\ wcols \in SUBSET WeightNames
    /\ wtiles \in 1..MaxWeightJobs
    /\ wjobs = 0
    /\ werr = <<>>
    /\ wpc = "call"

IdleWeight ==
    /\ wentry = "idle"
    /\ wname = ""
    /\ wcols = {}
    /\ wtiles = 0
    /\ wjobs = 0
    /\ werr = <<>>
    /\ wpc = "idle"

\* make_diag_tables / count_bad_pixels_per_block with a str weight_name:
\* the column is looked up before anything else is computed
ExpectedChecksColumn ==
    /\ wpc = "call"
    /\ wentry \notin StepKinds
    /\ IF wname \notin wcols
       THEN werr' = NotFoundMessage(wname) /\ wpc' = "raised"
       ELSE wpc' = "returned" /\ UNCHANGED werr
    /\ UNCHANGED <<wentry, wname, wcols, wtiles, wjobs>>
    /\ UNCHANGED notWeight

\* a tile job of a scoring step starts: score_tile is called.  The call of
\* scoring_step's job fails for its missing parameter; otherwise score_tile
\* fetches the tile and then reads the weight column
StepRunsTileJob ==
    /\ wpc = "call"
    /\ wentry \in StepKinds
    /\ wjobs < wtiles
    /\ wjobs' = wjobs + 1
    /\ IF ~PassesBalanceFactor(wentry)
       THEN werr' = MissingArgument /\ wpc' = "raised"
       ELSE IF wname \notin wcols
       THEN werr' = PandasKeyError(wname) /\ wpc' = "raised"
       ELSE UNCHANGED <<werr, wpc>>
    /\ UNCHANGED <<wentry, wname, wcols, wtiles>>
    /\ UNCHANGED notWeight

\* every tile job has returned
StepReturns ==
    /\ wpc = "call"
    /\ wentry \in StepKinds
    /\ wjobs = wtiles
    /\ wpc' = "returned"
    /\ UNCHANGED <<wentry, wname, wcols, wtiles, wjobs, werr>>
    /\ UNCHANGED notWeight

NextWeight == ExpectedChecksColumn \/ StepRunsTileJob \/ StepReturns

\* ========================================= count_bad_pixels_per_diag
\* largest n (number of bins)
MaxDiagBins == 4

\* the sorted array of the elements of a set of integers
RECURSIVE SortedArray(_)
SortedArray(S) ==
    IF S = {} THEN <<>>
    ELSE LET lo == CHOOSE a \in S : \A b \in S : a <= b
         IN  <<lo>> \o SortedArray(S \ {lo})

\* lattice_pdist_frequencies(n, points)[d]: fftconvolve(x, x[::-1]) rounded,
\* entry n-1+d of the full convolution, is the number of i with x[i] and
\* x[i+d] both set
lattice_pdist_frequencies(n, points) ==
    LET x == {points[i] : i \in 1..Len(points)}
    IN  [d \in 0..(n - 1) |-> Cardinality({i \in x : i + d \in x})]

\* `bad_bins[i]` of a numpy array of length k: a negative index counts from
\* the end, an index outside -k..k-1 raises IndexError
InRangeIndex(i, k) == -k <= i /\ i < k

ArrayAt(a, i) == IF i >= 0 THEN a[i + 1] ELSE a[Len(a) + i + 1]

\* `2 * k - ixn[diag] - pl - (k - pr)`
DiagCountMutNoIntersections(k, ixn_d, left, right) == 2 * k - left - (k - right)

DiagCount(k, ixn_d, left, right) == 2 * k - ixn_d - left - (k - right)

InitDiagCount ==
    /\ bn \in 1..MaxDiagBins
    /\ bad_bins \in {SortedArray(S) : S \in SUBSET (0..(bn - 1))}
    /\ dcount = [d \in 0..(bn - 1) |-> 0]
    /\ diag = 0
    /\ pl = 0
    /\ pr = 0
    /\ bpc = "start"

IdleDiagCount ==
    /\ bn = 0
    /\ bad_bins = <<>>
    /\ dcount = <<>>
    /\ diag = 0
    /\ pl = 0
    /\ pr = 0
    /\ bpc = "idle"

\* up to the loop: dcount[0] = ixn[0], pl = 0, pr = k, and range(1, n)
DiagCountStart ==
    /\ bpc = "start"
    /\ dcount' = [dcount EXCEPT ![0] = lattice_pdist_frequencies(bn, bad_bins)[0]]
    /\ pl' = 0
    /\ pr' = Len(bad_bins)
    /\ diag' = 1
    /\ bpc' = IF 1 < bn THEN "left_if" ELSE "done"
    /\ UNCHANGED <<bn, bad_bins>>
    /\ UNCHANGED notDiagCount

\* `if pl < k:`
LeftIf ==
    /\ bpc = "left_if"
    /\ bpc' = IF pl < Len(bad_bins) THEN "left_while" ELSE "right_if"
    /\ UNCHANGED <<bn, bad_bins, dcount, diag, pl, pr>>
    /\ UNCHANGED notDiagCount

\* one test of `while (bad_bins[pl] - diag) < 0:` and, when it holds, the
\* body `pl += 1; if pl == k: break`
LeftWhile ==
    /\ bpc = "left_while"
    /\ IF ~InRangeIndex(pl, Len(bad_bins))
       THEN bpc' = "IndexError" /\ UNCHANGED pl
       ELSE IF ArrayAt(bad_bins, pl) - diag < 0
       THEN /\ pl' = pl + 1
            /\ bpc' = IF pl + 1 = Len(bad_bins) THEN "right_if" ELSE "left_while"
       ELSE bpc' = "right_if" /\ UNCHANGED pl
    /\ UNCHANGED <<bn, bad_bins, dcount, diag, pr>>
    /\ UNCHANGED notDiagCount

\* `if pr > 0:`
RightIf ==
    /\ bpc = "right_if"
    /\ bpc' = IF pr > 0 THEN "right_while" ELSE "store"
    /\ UNCHANGED <<bn, bad_bins, dcount, diag, pl, pr>>
    /\ UNCHANGED notDiagCount

\* one test of `while (bad_bins[pr - 1] + diag) >= n:` and, when it holds,
\* the body `pr -= 1; if pr == 0: break`
RightWhile ==
    /\ bpc = "right_while"
    /\ IF ~InRangeIndex(pr - 1, Len(bad_bins))
       THEN bpc' = "IndexError" /\ UNCHANGED pr
       ELSE IF ArrayAt(bad_bins, pr - 1) + diag >= bn
       THEN /\ pr' = pr - 1
            /\ bpc' = IF pr - 1 = 0 THEN "store" ELSE "right_while"
       ELSE bpc' = "store" /\ UNCHANGED pr
    /\ UNCHANGED <<bn, bad_bins, dcount, diag, pl>>
    /\ UNCHANGED notDiagCount

\* `dcount[diag] = ...`, and the next diag of range(1, n)
StoreDiag ==
    /\ bpc = "store"
    /\ dcount' = [dcount EXCEPT ![diag] =
           DiagCount(Len(bad_bins), lattice_pdist_frequencies(bn, bad_bins)[diag],
                     pl, pr)]
    /\ diag' = diag + 1
    /\ bpc' = IF diag + 1 < bn THEN "left_if" ELSE "done"
    /\ UNCHANGED <<bn, bad_bins, pl, pr>>
    /\ UNCHANGED notDiagCount

NextDiagCount ==
    DiagCountStart \/ LeftIf \/ LeftWhile \/ RightIf \/ RightWhile \/ StoreDiag

\* ================================ make_diag_table, diagsum, diagsum_asymm
\* largest scaffold (number of bins)
MaxTableBins == 4

\* largest ignore_diags
MaxIgnoreDiags == 3

\* the bin spans [lo, hi) of regions of the scaffold
Spans == {s \in (0..MaxTableBins) \X (0..MaxTableBins) : s[1] < s[2]}

\* where(bad_mask[lo:hi]): np.flatnonzero of the slice, positions relative
\* to lo; an empty slice when hi <= lo
where(mask, lo, hi) == SortedArray({i - lo : i \in {j \in lo..(hi - 1) : mask[j]}})

\* np.arange(n, 0, -1)
count_all_pixels_per_diag(n) == [d \in 0..(n - 1) |-> n - d]

\* count_bad_pixels_per_diag(n, bad_bins) as returned: dcount[0] = ixn[0],
\* and for diag >= 1 the left pointer has passed the bad bins below diag and
\* the right pointer has dropped those at n - diag and above
count_bad_pixels_per_diag(n, bad) ==
    LET k   == Len(bad)
        ixn == lattice_pdist_frequencies(n, bad)
        left(d)  == Cardinality({i \in 1..k : bad[i] - d < 0})
        right(d) == k - Cardinality({i \in 1..k : bad[i] + d >= n})
    IN  [d \in 0..(n - 1) |->
            IF d = 0 THEN ixn[0] ELSE DiagCount(k, ixn[d], left(d), right(d))]

\* what _make_diag_table(n_bins, bad_locs) raises: np.zeros(n) of a negative
\* n is a ValueError, `dcount[0] = ixn[0]` of arrays of length 0 an IndexError
TableRaises(n) ==
    IF n < 0 THEN "ValueError" ELSE IF n = 0 THEN "IndexError" ELSE "none"

\* _make_diag_table(n_bins, bad_locs): index diag = 0..n_bins-1, columns
\* n_elem and n_valid
TriangleTable(n, bad) ==
    LET all  == count_all_pixels_per_diag(n)
        nbad == count_bad_pixels_per_diag(n, bad)
    IN  [d \in 0..(n - 1) |-> [n_elem |-> all[d], n_valid |-> all[d] - nbad[d]]]

\* DataFrame.subtract(other, fill_value=0): the union of the two indexes, a
\* row missing on one side counting as 0
FillAt(t, d) == IF d \in DOMAIN t THEN t[d] ELSE [n_elem |-> 0, n_valid |-> 0]

Subtract(t, other) ==
    [d \in (DOMAIN t) \cup (DOMAIN other) |->
        [n_elem  |-> FillAt(t, d).n_elem - FillAt(other, d).n_elem,
         n_valid |-> FillAt(t, d).n_valid - FillAt(other, d).n_valid]]

\* `if lo2 <= lo1:` swaps the two spans
Ordered(s1, s2) == IF s2[1] <= s1[1] THEN <<s2, s1>> ELSE <<s1, s2>>

\* diags.drop("n_elem", axis=1)
DropNElem(t) == [d \in DOMAIN t |-> [n_valid |-> t[d].n_valid]]

\* make_diag_table(bad_mask, span1, span2): [err, table].  The result of
\* `diags.add(...)` for spans with a gap is not assigned: diags is unchanged.
make_diag_table(mask, s1, s2) ==
    IF s1 = s2
    THEN [err   |-> TableRaises(s1[2] - s1[1]),
          table |-> DropNElem(TriangleTable(s1[2] - s1[1], where(mask, s1[1], s1[2])))]
    ELSE LET o   == Ordered(s1, s2)
             lo1 == o[1][1]
             hi1 == o[1][2]
             lo2 == o[2][1]
             hi2 == o[2][2]
             raised == IF TableRaises(hi2 - lo1) # "none" THEN TableRaises(hi2 - lo1)
                       ELSE IF TableRaises(lo2 - lo1) # "none" THEN TableRaises(lo2 - lo1)
                       ELSE TableRaises(hi2 - hi1)
             diags  == Subtract(Subtract(TriangleTable(hi2 - lo1, where(mask, lo1, hi2)),
                                         TriangleTable(lo2 - lo1, where(mask, lo1, lo2))),
                                TriangleTable(hi2 - hi1, where(mask, hi1, hi2)))
             kept   == {d \in DOMAIN diags : diags[d].n_elem > 0}
         IN  IF raised # "none"
             THEN [err |-> raised, table |-> <<>>]
             ELSE [err |-> "none", table |-> DropNElem([d \in kept |-> diags[d]])]

\* the count of a stored pixel
PixelCount(i, j) == 1 + ((i + j) % 2)

\* the sum over the pixels (bin1, bin2) of the upper triangle that the
\* supports assign to the area, by diagonal, aligned to the table's index
CountSum(t, s1, s2) ==
    LET RECURSIVE Sum(_)
        Sum(S) == IF S = {} THEN 0
                  ELSE LET p == CHOOSE q \in S : TRUE
                       IN  PixelCount(p[1], p[2]) + Sum(S \ {p})
        area(d) == {p \in (s1[1]..(s1[2] - 1)) \X (s2[1]..(s2[2] - 1)) : p[2] - p[1] = d}
    IN  [d \in DOMAIN t |-> Sum(area(d))]

\* the labels of the first k rows of a table: dt.iloc[:k]
FirstRows(t, k) == {d \in DOMAIN t : Cardinality({e \in DOMAIN t : e < d}) < k}

\* `if ignore_diags:  dt.iloc[:ignore_diags, j] = np.nan`
Blanked(t, k) == IF k # 0 THEN FirstRows(t, k) ELSE {}

InitDiagTable ==
    /\ gkind \in {"diagsum", "diagsum_asymm"}
    /\ bad_mask \in [0..(MaxTableBins - 1) -> BOOLEAN]
    /\ span1 \in Spans
    /\ span2 \in IF gkind = "diagsum" THEN {span1} ELSE Spans
    /\ ignore_diags \in 0..MaxIgnoreDiags
    /\ dtables = <<>>
    /\ gerr = "none"
    /\ gpc = "start"

IdleDiagTable ==
    /\ gkind = "none"
    /\ bad_mask = <<>>
    /\ span1 = <<>>
    /\ span2 = <<>>
    /\ ignore_diags = 0
    /\ dtables = <<>>
    /\ gerr = "none"
    /\ gpc = "idle"

\* dtables = make_diag_tables(...): make_diag_table for the area
MakeDiagTables ==
    /\ gpc = "start"
    /\ LET r == make_diag_table(bad_mask, span1, span2)
       IN  /\ gerr' = r.err
           /\ dtables' = r.table
           /\ gpc' = IF r.err = "none" THEN "tables" ELSE "raised"
    /\ UNCHANGED <<gkind, bad_mask, span1, span2, ignore_diags>>
    /\ UNCHANGED notDiagTable

\* the rest of diagsum / diagsum_asymm: the sum column, accumulated over the
\* chunks, and the blanking of the ignored diagonals
SumAndBlank ==
    /\ gpc = "tables"
    /\ LET sums == CountSum(dtables, span1, span2)
           nan  == Blanked(dtables, ignore_diags)
       IN  dtables' = [d \in DOMAIN dtables |->
               [n_valid   |-> dtables[d].n_valid,
                count_sum |-> [nan |-> d \in nan,
                               v   |-> IF d \in nan THEN 0 ELSE sums[d]]]]
    /\ gpc' = "done"
    /\ UNCHANGED <<gkind, bad_mask, span1, span2, ignore_diags, gerr>>
    /\ UNCHANGED notDiagTable

NextDiagTable == MakeDiagTables \/ SumAndBlank

\* ======================================================= specifications
\* one component runs, the others stay idle
StartTiling == InitTiling /\ IdleQvals /\ IdleModeA /\ IdleScore /\ IdleHist /\ IdleExtract /\ IdlePool /\ IdleCluster /\ IdleThresh /\ IdleWeight /\ IdleDiagCount /\ IdleDiagTable
StartQvals == IdleTiling /\ InitQvals /\ IdleModeA /\ IdleScore /\ IdleHist /\ IdleExtract /\ IdlePool /\ IdleCluster /\ IdleThresh /\ IdleWeight /\ IdleDiagCount /\ IdleDiagTable
StartModeA == IdleTiling /\ IdleQvals /\ InitModeA /\ IdleScore /\ IdleHist /\ IdleExtract /\ IdlePool /\ IdleCluster /\ IdleThresh /\ IdleWeight /\ IdleDiagCount /\ IdleDiagTable
StartScore == IdleTiling /\ IdleQvals /\ IdleModeA /\ InitScore /\ IdleHist /\ IdleExtract /\ IdlePool /\ IdleCluster /\ IdleThresh /\ IdleWeight /\ IdleDiagCount /\ IdleDiagTable
StartHist == IdleTiling /\ IdleQvals /\ IdleModeA /\ IdleScore /\ InitHist /\ IdleExtract /\ IdlePool /\ IdleCluster /\ IdleThresh /\ IdleWeight /\ IdleDiagCount /\ IdleDiagTable
StartExtract == IdleTiling /\ IdleQvals /\ IdleModeA /\ IdleScore /\ IdleHist /\ InitExtract /\ IdlePool /\ IdleCluster /\ IdleThresh /\ IdleWeight /\ IdleDiagCount /\ IdleDiagTable
StartPool == IdleTiling /\ IdleQvals /\ IdleModeA /\ IdleScore /\ IdleHist /\ IdleExtract /\ InitPool /\ IdleCluster /\ IdleThresh /\ IdleWeight /\ IdleDiagCount /\ IdleDiagTable
StartCluster == IdleTiling /\ IdleQvals /\ IdleModeA /\ IdleScore /\ IdleHist /\ IdleExtract /\ IdlePool /\ InitCluster /\ IdleThresh /\ IdleWeight /\ IdleDiagCount /\ IdleDiagTable
StartThresh == IdleTiling /\ IdleQvals /\ IdleModeA /\ IdleScore /\ IdleHist /\ IdleExtract /\ IdlePool /\ IdleCluster /\ InitThresh /\ IdleWeight /\ IdleDiagCount /\ IdleDiagTable
StartWeight == IdleTiling /\ IdleQvals /\ IdleModeA /\ IdleScore /\ IdleHist /\ IdleExtract /\ IdlePool /\ IdleCluster /\ IdleThresh /\ InitWeight /\ IdleDiagCount /\ IdleDiagTable
StartDiagCount == IdleTiling /\ IdleQvals /\ IdleModeA /\ IdleScore /\ IdleHist /\ IdleExtract /\ IdlePool /\ IdleCluster /\ IdleThresh /\ IdleWeight /\ InitDiagCount /\ IdleDiagTable
StartDiagTable == IdleTiling /\ IdleQvals /\ IdleModeA /\ IdleScore /\ IdleHist /\ IdleExtract /\ IdlePool /\ IdleCluster /\ IdleThresh /\ IdleWeight /\ IdleDiagCount /\ InitDiagTable

SpecTiling == StartTiling /\ [][NextTiling]_vars

SpecQvals == StartQvals /\ [][NextQvals]_vars

SpecModeA == StartModeA /\ [][NextModeA]_vars

SpecScore == StartScore /\ [][NextScore]_vars

SpecHist == StartHist /\ [][NextHist]_vars

SpecExtract == StartExtract /\ [][NextExtract]_vars

SpecPool == StartPool /\ [][NextPool]_vars

SpecCluster == StartCluster /\ [][NextCluster]_vars

SpecThresh == StartThresh /\ [][NextThresh]_vars

SpecWeight == StartWeight /\ [][NextWeight]_vars

SpecDiagCount == StartDiagCount /\ [][NextDiagCount]_vars /\ WF_vars(NextDiagCount)

SpecDiagTable == StartDiagTable /\ [][NextDiagTable]_vars

\* ------------------------------------------------------- tiling: claims

\* pixel (i, j) lies inside the square tile [lw, rw) x [lw, rw)
InDiagTile(t, i, j) == t[1] <= i /\ i < t[2] /\ t[1] <= j /\ j < t[2]

\* pixel (i, j) lies inside the (row span, column span) of a grid tile
InTile(t, i, j) == t[1][1] <= i /\ i < t[1][2] /\ t[2][1] <= j /\ j < t[2][2]

BinsOf(a) == a.start..(a.stop - 1)

\* C1 (as claimed): once diagonal_matrix_tiling is exhausted, every pixel
\* (i, j) with start <= i <= j < stop and j - i < bandwidth lies inside at
\* least one yielded tile, for every start < stop, bandwidth >= 1, edge >= 0.
C1_DiagBandCovered ==
    (gen = "diag" /\ tpc = "done" /\ targs.start < targs.stop) =>
        \A i \in BinsOf(targs) : \A j \in BinsOf(targs) :
            (i <= j /\ j - i < targs.step) =>
                \E k \in 1..Len(tiles) : InDiagTile(tiles[k], i, j)

\* C2 (as claimed): once heatmap_tiles_generator_diag is exhausted for a
\* chromosome, every pixel (i, j) of it with 0 <= j - i < band_to_cover lies
\* inside at least one yielded tile.
C2_HeatmapBandCovered ==
    (gen = "heatmap" /\ tpc = "done") =>
        \A i \in BinsOf(targs) : \A j \in BinsOf(targs) :
            (0 <= j - i /\ j - i < targs.band) =>
                \E k \in 1..Len(tiles) : InTile(tiles[k], i, j)

\* a tile holds a pixel whose column-minus-row offset is in [0, band)
HoldsBandPixel(t, band) ==
    \E i \in t[1][1]..(t[1][2] - 1) : \E j \in t[2][1]..(t[2][2] - 1) :
        0 <= j - i /\ j - i < band

\* C3 (as claimed): every step of heatmap_tiles_generator_diag that yields a
\* tile yields one whose grid row index does not exceed its grid column
\* index, whose row start is <= its column start, and which holds at least
\* one pixel with offset in [0, band_to_cover).
C3_YieldedTileInBand ==
    [][HeatmapYield =>
          /\ tx <= ty
          /\ SquareTile(targs, tx, ty)[1][1] <= SquareTile(targs, tx, ty)[2][1]
          /\ HoldsBandPixel(SquareTile(targs, tx, ty), targs.band)]_vars

\* a boundary span: its right end reaches the end of the tiled range
IsBoundarySpan(a, s) == s[2] >= a.stop

\* C5 (as claimed): with square=True every boundary span yielded by
\* square_matrix_tiling has side length exactly step.
C5_BoundarySpanIsStep ==
    (gen = "square" /\ targs.square) =>
        \A k \in 1..Len(tiles) : \A d \in 1..2 :
            IsBoundarySpan(targs, tiles[k][d]) =>
                tiles[k][d][2] - tiles[k][d][1] = targs.step

\* C5 (amended): with square=True every boundary span yielded by
\* square_matrix_tiling has side length exactly step + edge: the near
\* boundary is slid to size - step - edge, so the span keeps its padding.
C5_BoundarySpanIsStepPlusEdge ==
    (gen = "square" /\ targs.square) =>
        \A k \in 1..Len(tiles) : \A d \in 1..2 :
            IsBoundarySpan(targs, tiles[k][d]) =>
                tiles[k][d][2] - tiles[k][d][1] = targs.step + targs.edge

\* C5 witness: a square=True run with a positive edge has yielded a boundary
\* tile of a range that step does not divide.
C5_Witness ==
    /\ gen = "square" /\ targs.square /\ targs.edge > 0
    /\ (targs.stop - targs.start) % targs.step # 0
    /\ \E k \in 1..Len(tiles) : IsBoundarySpan(targs, tiles[k][1])

\* ---------------------------------------------------- get_qvals: claims

\* the call has returned for a given input
QReturned == qpc = "done"

\* C8: get_qvals returns one q-value per p-value, in the order of the input:
\* q[i] = p[i] * N / rank(i) for a ranking of the p-values (a bijection onto
\* 1..N that ranks a smaller p-value lower); the array [0.01, 0.02, 0.03,
\* 0.5] gives [0.04, 0.04, 0.04, 0.5].
C8_QvalsArePTimesNOverRank ==
    QReturned =>
        /\ Len(qvals) = Len(pvals)
        /\ \E r \in Permutations(1..Len(pvals)) :
              /\ \A i \in 1..Len(pvals) : \A j \in 1..Len(pvals) :
                    FLt(pvals[i], pvals[j]) => r[i] < r[j]
              /\ \A i \in 1..Len(pvals) :
                    /\ IsFinite(qvals[i])
                    /\ FMul(qvals[i], FromInt(r[i]))
                           = FMul(FromInt(Len(pvals)), pvals[i])
        /\ pvals = <<Frac(1, 100), Frac(2, 100), Frac(3, 100), Frac(1, 2)>>
              => qvals = <<Frac(4, 100), Frac(4, 100), Frac(4, 100), Frac(1, 2)>>

\* C8 witness: the array of the example, given out of order, has come back
\* with its q-values in the order of the input.
C8_Witness ==
    /\ QReturned
    /\ pvals = <<Frac(1, 2), Frac(1, 100), Frac(3, 100), Frac(2, 100)>>
    /\ qvals = <<Frac(1, 2), Frac(4, 100), Frac(4, 100), Frac(4, 100)>>

\* the Benjamini-Hochberg step-up procedure at level alpha over p: with K the
\* largest k such that the k-th smallest p-value is <= alpha*k/N, the K
\* smallest p-values are rejected (none when there is no such k)
BHRejected(p, alpha) ==
    LET N == Len(p)
        AtMost(k) == {i \in 1..N : FLe(p[i], FDiv(FMul(alpha, FromInt(k)), FromInt(N)))}
        Ks == {k \in 1..N : Cardinality(AtMost(k)) >= k}
    IN  IF Ks = {} THEN {}
        ELSE AtMost(CHOOSE k \in Ks : \A m \in Ks : m <= k)

\* C9 (as claimed): for every level alpha, the p-values whose q-value is
\* <= alpha are exactly those the Benjamini-Hochberg step-up procedure
\* rejects at level alpha.
C9_QvalsAreBHLevels ==
    QReturned =>
        \A alpha \in PGrid :
            {i \in 1..Len(pvals) : FLe(qvals[i], alpha)} = BHRejected(pvals, alpha)

\* ------------------------------------------------------- Mode A: claims

\* C10 (as claimed): a pixel is marked comply_fdr only if every kernel's
\* q-value is <= fdr, and with fdr = 0 no pixel is marked.
C10_ComplyOnlyBelowFdr ==
    apc = "tested" =>
        \A i \in 1..Len(res_df) :
            res_df[i].comply_fdr =>
                /\ \A k \in KTypes : FLe(res_df[i].qval[k], fdr)
                /\ fdr # Zero

\* --- the scorer

\* the local cell <<a, b>> of the last tile is a row of the returned table
Reported(c) ==
    \E n \in 1..Len(result) :
        /\ result[n].bin1_id = frame.io + c[1]
        /\ result[n].bin2_id = frame.jo + c[2]

\* the cells the convolution with a kernel reads for cell c
FootprintCells(kernel, c) ==
    {<<c[1] - (u - HalfWidth(kernel)), c[2] - (v - HalfWidth(kernel))>> :
        <<u, v>> \in {x \in (0..(Len(kernel) - 1)) \X (0..(Len(kernel) - 1)) :
                         kernel[x[1] + 1][x[2] + 1] # 0}}

\* the footprint of cell c lies in the tile, holds no NaN or masked cell, and
\* balanced observed equals balanced expected at each of its cells
CleanEqualFootprint(kernel, c) ==
    \A p \in FootprintCells(kernel, c) :
        /\ p \in TileCells(frame.ni, frame.nj)
        /\ ~frame.N_bal[p]
        /\ frame.O_bal[p] = frame.E_bal[p]

\* C4: with pad_size equal to the kernel half-width, over the tiles that
\* heatmap_tiles_generator_diag yields for the chromosome no pixel
\* (bin1_id, bin2_id) is in the score_tile output of two different tiles,
\* whatever nans_tolerated is.
C4_NoPixelInTwoTiles ==
    (spc # "idle" /\ sargs.tiles = heatmap_tiles_generator_diag(ChromTiling)) =>
        \A t1 \in 1..Len(chunks) : \A t2 \in 1..Len(chunks) :
            t1 < t2 =>
                \A r1 \in 1..Len(chunks[t1]) : \A r2 \in 1..Len(chunks[t2]) :
                    ~(/\ chunks[t1][r1].bin1_id = chunks[t2][r2].bin1_id
                      /\ chunks[t1][r1].bin2_id = chunks[t2][r2].bin2_id)

\* C6: every row get_adjusted_expected_tile_some_nans returns has
\* bin1_id < bin2_id and a finite adjusted expected for every kernel; a cell
\* for which some kernel's convolved expected KE is zero, and a cell on or
\* below the diagonal, is not a row of the table, whatever the tile origin.
C6_RowsUpperAndFinite ==
    (spc # "idle" /\ Len(chunks) > 0) =>
        /\ \A n \in 1..Len(result) :
              /\ result[n].bin1_id < result[n].bin2_id
              /\ \A k \in DOMAIN result[n].value : IsFinite(result[n].value[k])
        /\ \A c \in TileCells(frame.ni, frame.nj) :
              (\/ \E k \in DOMAIN frame.KE : frame.KE[k][c] = Zero
               \/ frame.io + c[1] >= frame.jo + c[2])
              => ~Reported(c)

\* C6 witness: a tile was scored that has an upper-triangle cell where a
\* kernel's KE is zero and its KO is not (the ratio is infinite); the cell
\* is not in the table, which has other rows.
C6_Witness ==
    /\ spc # "idle"
    /\ Len(chunks) > 0
    /\ Len(result) > 0
    /\ \E c \in TileCells(frame.ni, frame.nj) :
          /\ frame.io + c[1] < frame.jo + c[2]
          /\ \E k \in DOMAIN frame.KE :
                frame.KE[k][c] = Zero /\ frame.KO[k][c] # Zero
          /\ ~Reported(c)

\* C7: for every kernel and every reported cell whose footprint holds no
\* NaN or masked position and whose KE is not zero: if balanced observed
\* equals balanced expected at every footprint position, the cell's
\* la_exp.<kernel>.value equals its exp.raw.
C7_EqualFootprintGivesExpRaw ==
    (spc # "idle" /\ Len(chunks) > 0) =>
        \A n \in 1..Len(result) : \A k \in DOMAIN sargs.kernels :
            LET c == <<result[n].bin1_id - frame.io, result[n].bin2_id - frame.jo>>
            IN  (/\ CleanEqualFootprint(sargs.kernels[k], c)
                 /\ frame.KE[k][c] # Zero)
                => result[n].value[k] = result[n].exp_raw

\* C7 witness: a reported cell with a clean donut footprint on which observed
\* equals expected, whose own weights are not 1 (exp.raw is 1/2, not the
\* balanced expected 1), and whose donut value is that exp.raw.
C7_Witness ==
    /\ spc # "idle"
    /\ Len(chunks) > 0
    /\ \E n \in 1..Len(result) :
          LET c == <<result[n].bin1_id - frame.io, result[n].bin2_id - frame.jo>>
          IN  /\ CleanEqualFootprint(sargs.kernels.donut, c)
              /\ frame.KE.donut[c] # Zero
              /\ result[n].exp_raw = Frac(1, 2)
              /\ result[n].value.donut = Frac(1, 2)

\* --- the histograms

\* the sequence hs in the order p
Permuted(hs, p) == [n \in 1..Len(hs) |-> hs[p[n]]]

\* the results of folding the sequence hs, in this order, under every
\* grouping (every way to bracket the merges)
RECURSIVE AllFolds(_)
AllFolds(hs) ==
    IF Len(hs) = 1 THEN {hs[1]}
    ELSE UNION {{_sum_hists(x, y) :
                    x \in AllFolds(SubSeq(hs, 1, n)),
                    y \in AllFolds(SubSeq(hs, n + 1, Len(hs)))} :
                n \in 1..(Len(hs) - 1)}

\* C11: folding the per-tile histograms with _sum_hists in any permutation
\* and under any grouping gives the histogram the step merged, a count that
\* is absent from a tile's histogram counting as zero.
C11_SumHistsAnyOrder ==
    hpc = "check" =>
        \A p \in Permutations(1..Len(hchunks)) :
            AllFolds(Permuted(hchunks, p)) = {final_hist}

\* C11 witness: three tiles whose histograms have three different sets of
\* rows have been merged.
C11_Witness ==
    /\ hpc = "check"
    /\ Len(hchunks) = 3
    /\ \A i \in 1..3 : \A j \in 1..3 :
          i # j => DOMAIN hchunks[i].donut # DOMAIN hchunks[j].donut
    /\ \E c \in DOMAIN final_hist.donut : final_hist.donut[c] > 1

\* the merged histogram of some kernel has pixels in its top bin
SomeTopMass == \E k \in DOMAIN final_hist : TopMass(final_hist[k], Ledges) # 0

\* C12: scoring_and_histogramming_step raises an error that names a kernel
\* and the top bin (last_edge, +inf] when some kernel's merged histogram
\* has pixels in its top bin, and the named kernel is one of those;
\* otherwise it returns, per kernel, the merged histogram without its top
\* bin and with every other cell unchanged.
C12_TopBinCheckedThenDropped ==
    /\ hpc = "raised" =>
          /\ SomeTopMass
          /\ herr[1] \in DOMAIN final_hist
          /\ TopMass(final_hist[herr[1]], Ledges) # 0
          /\ herr[2] = <<Two, Inf>>
    /\ hpc = "returned" =>
          /\ ~SomeTopMass
          /\ \A k \in DOMAIN final_hist :
                /\ DOMAIN hout[k] =
                       {c \in DOMAIN final_hist[k] : c[2] # Len(Ledges) - 1}
                /\ \A c \in DOMAIN hout[k] : hout[k][c] = final_hist[k][c]

\* C12 witness: the step returned a histogram that has rows and counted
\* pixels, after dropping an empty top bin.
C12_Witness ==
    /\ hpc = "returned"
    /\ \E c \in DOMAIN hout.donut : hout.donut[c] > 0
    /\ \E c \in DOMAIN final_hist.donut : c[2] = Len(Ledges) - 1

\* --- extract_scored_pixels

\* obs.raw of the row is above the threshold of the interval
\* (ledges[b], ledges[b+1]] that contains the row's la_exp.<k>.value
AboveThreshold(row, k) ==
    \E b \in 1..(Len(Ledges) - 1) :
        /\ FLt(Ledges[b], row.la[k])
        /\ FLe(row.la[k], Ledges[b + 1])
        /\ row.obs > xthresholds[k][b]

\* C13: extract_scored_pixels returns exactly the rows of scored_df whose
\* obs.raw is, for every kernel, strictly above the threshold of the
\* interval that contains the row's la_exp value; the rows are returned as
\* they are, in their order.
C13_ExtractsRowsAboveThresholds ==
    xpc = "done" =>
        xout = SelectSeq(xscored,
                   LAMBDA row : \A k \in KTypes : AboveThreshold(row, k))

\* C13 witness: of two pixels one is returned and the other, whose obs.raw
\* equals its threshold for a kernel, is not.
C13_Witness ==
    /\ xpc = "done"
    /\ Len(xscored) = 2
    /\ Len(xout) = 1
    /\ \E i \in 1..2 : \E k \in KTypes :
          xscored[i].obs = ThresholdAt(xthresholds, k, xscored[i].la[k], Ledges)

\* --- the three steps and their pool

PoolFinished == ppc \in {"returned", "raised"}

\* what the step returns when the jobs run one after another in tile order
SerialResults == [i \in DOMAIN ptiles |-> JobResult(pkind, ptiles[i])]

SerialHist ==
    LET final == Reduce(SerialResults)
    IN  [k \in DOMAIN final |-> DropTop(final[k], Ledges)]

SerialExtract == sort_values(Concat(SerialResults))

\* whether the step raises when the jobs run one after another
SerialRaises ==
    \/ Len(ptiles) = 0
    \/ \E i \in DOMAIN ptiles : ~JobOk(pkind, ptiles[i])
    \/ pkind = "hist" /\ FirstFailing(Reduce(SerialResults), Ledges, 1) # 0

IsSorted(df) ==
    \A i \in 1..Len(df) : \A j \in 1..Len(df) : i < j => ~KeyLess(df[j], df[i])

\* C14: for a tile list, scoring_and_histogramming_step and
\* scoring_and_extraction_step end the same way for nproc = 1 and for
\* nproc > 1, whatever the order in which the workers complete the jobs:
\* they raise in the same cases and return the value the serial run
\* returns; the extraction result is sorted by
\* (chrom1, chrom2, start1, start2).
C14_ResultIndependentOfWorkers ==
    (PoolFinished /\ pkind \in {"hist", "extract"}) =>
        /\ (ppc = "raised") = SerialRaises
        /\ (ppc = "returned" /\ pkind = "hist") => pres = SerialHist
        /\ (ppc = "returned" /\ pkind = "extract") =>
              pres = SerialExtract /\ IsSorted(pres)

\* C14 witness: a pooled extraction has returned two or more pixels after
\* the jobs completed against tile order, and the concatenation in tile
\* order was not sorted.
C14_Witness ==
    /\ ppc = "returned"
    /\ pkind = "extract"
    /\ pnproc > 1
    /\ Len(pres) >= 2
    /\ ~IsSorted(Concat(pacc))
    /\ \E a \in 1..Len(pexec) : \E b \in 1..Len(pexec) : a < b /\ pexec[a] > pexec[b]

\* C15: in each of the three steps, once a pool has been created it is
\* closed by the time the step returns or raises.
C15_PoolClosedAtExit ==
    (PoolFinished /\ pnproc > 1) => ppool = "closed"

\* C15 witness: a step with a pool has raised the failure of a tile job and
\* the pool is closed.
C15_Witness ==
    /\ ppc = "raised"
    /\ perr.kind = "job"
    /\ pnproc > 1
    /\ ppool = "closed"

\* C16: if a tile job fails the step raises that failure and returns
\* nothing built from the other tiles, and after the failure the pool
\* executes no further tile job.
C16_FailureStopsThePool ==
    /\ ppc = "returned" => \A i \in DOMAIN ptiles : pstat[i] # "failed"
    /\ (ppc = "raised" /\ perr.kind = "job") =>
          pstat[perr.tile] = "failed" /\ pres = <<>>
    /\ \A a \in 1..Len(pexec) : \A b \in 1..Len(pexec) :
          (a < b /\ pstat[pexec[a]] = "failed") => FALSE

\* --- clustering_step, clustering_step_local

\* the clusters: the Birch blobs of each chromosome
Clusters == {<<cdf[i].chrom, cdf[i].blob>> : i \in 1..Len(cdf)}

ClusterMembers(c) == {i \in 1..Len(cdf) : <<cdf[i].chrom, cdf[i].blob>> = c}

\* C17: the table clustering_step and clustering_step_local return has
\* exactly one row per (chrom1, chrom2, c_label) cluster, and the row is a
\* member of the cluster with the largest obs.raw of the cluster; also for
\* the table read back from the file scoring_step appended tile by tile.
C17_OneCentroidPerCluster ==
    cpc = "returned" =>
        /\ Len(centroids) = Cardinality(Clusters)
        /\ \A c \in Clusters :
              \E r \in 1..Len(centroids) :
                  /\ <<centroids[r].chrom, centroids[r].c_label>> = c
                  /\ centroids[r].blob = centroids[r].c_label
                  /\ \A i \in ClusterMembers(c) : cdf[i].obs <= centroids[r].obs

\* --- thresholding_step

\* obs > (a/b) * la, in integers
Exceeds(obs, a, b, la) == obs * b * la[2] > a * la[1]

\* the sum of the four q-values is at most 0.02, in integers
OrphanPasses(row) ==
    LET s == FAdd(FAdd(FAdd(row.qval.lowleft, row.qval.donut),
                       row.qval.vertical), row.qval.horizontal)
    IN  50 * s[1] <= s[2]

KeptByClaim(row) ==
    /\ Exceeds(row.obs, 7, 4, row.la.lowleft)
    /\ Exceeds(row.obs, 7, 4, row.la.donut)
    /\ Exceeds(row.obs, 3, 2, row.la.vertical)
    /\ Exceeds(row.obs, 3, 2, row.la.horizontal)
    /\ (Exceeds(row.obs, 2, 1, row.la.lowleft) \/ Exceeds(row.obs, 2, 1, row.la.donut))
    /\ (row.c_size > 1 \/ OrphanPasses(row))

C19_ReturnsTheOutputColumns ==
    /\ thpc # "raised"
    /\ thpc = "returned" => toutcols = columns_for_output

\* --- the band filter in the three steps

\* the pixels of a table
PixelsOf(df) == {<<df[n].bin1_id, df[n].bin2_id>> : n \in 1..Len(df)}

\* the pixels of the last tile's peaks that the filter of score_tile admits
\* with band_to_cover = loci_separation_bins
AdmittedOfLastTile ==
    {<<result[n].bin1_id, result[n].bin2_id>> :
        n \in {m \in 1..Len(result) :
                  /\ 0 < result[m].bin2_id - result[m].bin1_id
                  /\ result[m].bin2_id - result[m].bin1_id < sargs.loci_separation_bins
                  /\ \A k \in DOMAIN result[m].nnans :
                        result[m].nnans[k] < sargs.nans_tolerated}}

\* C20: every row score_tile returns has 0 < bin2_id - bin1_id <
\* band_to_cover, and scoring_step, scoring_and_histogramming_step and
\* scoring_and_extraction_step all apply that filter with band_to_cover =
\* loci_separation_bins: whatever the step, every tile gets its table and
\* the table holds the pixels the filter admits.
C20_SameBandInEveryStep ==
    spc # "idle" =>
        /\ \A t \in 1..Len(chunks) : \A n \in 1..Len(chunks[t]) :
              /\ 0 < chunks[t][n].bin2_id - chunks[t][n].bin1_id
              /\ chunks[t][n].bin2_id - chunks[t][n].bin1_id
                    < sargs.loci_separation_bins
        /\ Len(chunks) > 0 => PixelsOf(chunks[Len(chunks)]) = AdmittedOfLastTile
        /\ spc \in {"done", "raised"} => Len(chunks) = Len(sargs.tiles)

\* --- nans_tolerated

\* the pixels of the last tile's table
LastChunkPixels == PixelsOf(chunks[Len(chunks)])

\* C21: nans_tolerated is the number of NaNs tolerated in every kernel's
\* footprint: score_tile keeps an in-band pixel exactly when every kernel's
\* footprint NaN count is at most nans_tolerated.
C21_KeepsUpToNansTolerated ==
    (spc # "idle" /\ Len(chunks) > 0) =>
        \A n \in 1..Len(result) :
            (result[n].bin1_id > result[n].bin2_id - sargs.loci_separation_bins) =>
                (<<result[n].bin1_id, result[n].bin2_id>> \in LastChunkPixels
                 <=> \A k \in DOMAIN result[n].nnans :
                        result[n].nnans[k] <= sargs.nans_tolerated)

\* --- the balancing-weight column

\* the message names the column
Names(msg, column) == \E n \in 1..Len(msg) : msg[n] = column

\* C22: a balancing-weight column that the bin table lacks is a fatal error
\* raised before any tile or chunk job starts, and the error names the
\* missing column; in the tile pipeline and in make_diag_tables /
\* count_bad_pixels_per_block.
C22_MissingColumnNamedUpFront ==
    (wpc # "idle" /\ wname \notin wcols) =>
        /\ wjobs = 0
        /\ wpc # "returned"
        /\ wpc = "raised" => Names(werr, wname)

\* --- count_bad_pixels_per_diag

\* the pixels (i, i+d) of an n x n matrix in which i or i+d is a bad bin
BadPixelsOnDiag(d) ==
    LET bad == {bad_bins[i] : i \in 1..Len(bad_bins)}
    IN  {i \in 0..(bn - 1 - d) : i \in bad \/ i + d \in bad}

\* C23: for every n >= 1, every sorted set of distinct bad bins of 0..n-1
\* and every d, count_bad_pixels_per_diag returns dcount[d] equal to the
\* number of pixels (i, i+d) with a bad bin; it never indexes bad_bins out
\* of range, and it terminates.
C23_CountsBadPixelsAndTerminates ==
    /\ [](/\ bpc # "IndexError"
          /\ bpc = "done" =>
                \A d \in 0..(bn - 1) : dcount[d] = Cardinality(BadPixelsOnDiag(d)))
    /\ <>(bpc = "done")

\* C23 witness: the function has returned for bad bins of which two are a
\* diagonal apart (an intersection pixel), after both pointers moved.
C23_Witness ==
    /\ bpc = "done"
    /\ pl > 0
    /\ pr < Len(bad_bins)
    /\ \E d \in 1..(bn - 1) :
          /\ lattice_pdist_frequencies(bn, bad_bins)[d] > 0
          /\ dcount[d] > 0

\* --- make_diag_table, diagsum

\* the pixels (i, j) of diagonal d >= 0 with i in one span and j in the
\* other, neither bin bad
ValidPixels(d) ==
    LET In(s, i) == s[1] <= i /\ i < s[2]
    IN  {p \in (0..(MaxTableBins - 1)) \X (0..(MaxTableBins - 1)) :
            /\ p[2] - p[1] = d
            /\ \/ In(span1, p[1]) /\ In(span2, p[2])
               \/ In(span2, p[1]) /\ In(span1, p[2])
            /\ ~bad_mask[p[1]]
            /\ ~bad_mask[p[2]]}

\* the table of the area is right wherever make_diag_table returns one
TableRight ==
    \A d \in DOMAIN dtables :
        /\ dtables[d].n_valid = Cardinality(ValidPixels(d))
        /\ dtables[d].n_valid >= 0

\* C24: for equal, overlapping, adjacent and separated spans, in either
\* order, make_diag_table returns a table in which n_valid[d] of every
\* listed diagonal is the number of valid pixels of the area on d, never
\* negative.
C24_CountsValidPixels ==
    gpc # "start" => (gerr = "none" /\ gpc # "raised" /\ TableRight)

\* C25: diagsum and diagsum_asymm blank the sums of exactly the diagonals
\* d < ignore_diags, whatever the lowest listed diagonal of the table.
C25_BlanksExactlyTheFirstDiagonals ==
    gpc = "done" =>
        \A d \in DOMAIN dtables : dtables[d].count_sum.nan <=> (d < ignore_diags)

\* --- the NaN counts of the kernels

\* the positions the convolution with a kernel reads for cell c that lie
\* outside the tile or are in the shared NaN mask
NaNPositions(kernel, c) ==
    {p \in FootprintCells(kernel, c) :
        p \notin TileCells(frame.ni, frame.nj) \/ frame.N_bal[p]}

\* the kernel-weighted sum of matrix M over the positions read for cell c
\* that lie inside the tile
RECURSIVE InsideSum(_, _, _, _)
InsideSum(M, kernel, c, S) ==
    IF S = {} THEN Zero
    ELSE LET x == CHOOSE y \in S : TRUE
             p == <<c[1] - (x[1] - HalfWidth(kernel)), c[2] - (x[2] - HalfWidth(kernel))>>
             t == IF p \in TileCells(frame.ni, frame.nj)
                  THEN FMul(FromInt(kernel[x[1] + 1][x[2] + 1]), M[p])
                  ELSE Zero
         IN  FAdd(t, InsideSum(M, kernel, c, S \ {x}))

KernelEntries(kernel) == (0..(Len(kernel) - 1)) \X (0..(Len(kernel) - 1))

\* C26: for every kernel and every cell of the tile, nnans is the number of
\* positions of the kernel's nonzero footprint that are outside the tile or
\* in the shared NaN mask (masked lower-triangle cells included), each row
\* of the table carries that count, and the positions outside the tile add
\* nothing to the convolved observed and expected.
C26_NnansCountsFootprintNaNs ==
    (spc # "idle" /\ Len(chunks) > 0) =>
        /\ \A k \in DOMAIN sargs.kernels : \A c \in TileCells(frame.ni, frame.nj) :
              /\ frame.NN[k][c] = Cardinality(NaNPositions(sargs.kernels[k], c))
              /\ frame.KO[k][c] = InsideSum(frame.O_bal, sargs.kernels[k], c,
                                            KernelEntries(sargs.kernels[k]))
              /\ frame.KE[k][c] = InsideSum(frame.E_bal, sargs.kernels[k], c,
                                            KernelEntries(sargs.kernels[k]))
        /\ \A n \in 1..Len(result) : \A k \in DOMAIN sargs.kernels :
              result[n].nnans[k] =
                  Cardinality(NaNPositions(sargs.kernels[k],
                      <<result[n].bin1_id - frame.io, result[n].bin2_id - frame.jo>>))

\* C26 witness: a tile cell whose donut footprint has a position outside the
\* tile, a masked lower-triangle position inside it and a position that is
\* neither, so that its count is between 2 and the size of the footprint;
\* and a row of the table with a nonzero donut count.
C26_Witness ==
    /\ spc # "idle"
    /\ Len(chunks) > 0
    /\ \E c \in TileCells(frame.ni, frame.nj) :
          LET F == FootprintCells(sargs.kernels.donut, c)
          IN  /\ \E p \in F : p \notin TileCells(frame.ni, frame.nj)
              /\ \E p \in F : /\ p \in TileCells(frame.ni, frame.nj)
                              /\ Lower(frame.io, frame.jo, p)
                              /\ frame.N_bal[p]
              /\ \E p \in F : p \in TileCells(frame.ni, frame.nj) /\ ~frame.N_bal[p]
              /\ frame.NN.donut[c] >= 2
              /\ frame.NN.donut[c] < Cardinality(F)
    /\ \E n \in 1..Len(result) : result[n].nnans.donut > 0

\* --- the lower-triangle mask

\* the cooler itself has a NaN at pixel (i, j): a NaN weight of either bin,
\* or a NaN expected on the pixel's diagonal
NaNInCooler(i, j) ==
    \/ IsNaN(clr.weight[i])
    \/ IsNaN(clr.weight[j])
    \/ IsNaN(clr.exp[Abs(i - j)])

\* C27: in every tile, whatever its origin (io, jo), the masking makes
\* local cell (a, b) a NaN of both balanced matrices exactly when
\* io + a > jo + b: every such cell is in the shared NaN mask, and a cell
\* with io + a <= jo + b is in the mask only for a NaN of the cooler at that
\* pixel; so the mask of a pixel is the same in every tile that holds it.
C27_MaskFollowsAbsoluteOrigin ==
    (spc # "idle" /\ Len(chunks) > 0) =>
        \A c \in TileCells(frame.ni, frame.nj) :
            LET i == frame.io + c[1]
                j == frame.jo + c[2]
            IN  /\ i > j => (frame.N_bal[c] /\ frame.O_bal[c] = Zero /\ frame.E_bal[c] = Zero)
                /\ (i <= j /\ frame.N_bal[c]) => NaNInCooler(i, j)
                /\ (i <= j /\ ~NaNInCooler(i, j)) => ~frame.N_bal[c]

\* C27 witness: a tile with an origin off the diagonal (io < jo) that has a
\* masked cell, and an unmasked cell below the tile's own diagonal (a > b)
\* that is on the matrix diagonal.
C27_Witness ==
    /\ spc # "idle"
    /\ Len(chunks) > 0
    /\ frame.io < frame.jo
    /\ \E c \in TileCells(frame.ni, frame.nj) :
          frame.io + c[1] > frame.jo + c[2] /\ frame.N_bal[c]
    /\ \E c \in TileCells(frame.ni, frame.nj) :
          /\ c[1] > c[2]
          /\ frame.io + c[1] = frame.jo + c[2]
          /\ ~frame.N_bal[c]

\* --- the cells of the histograms

\* the count a histogram frame holds for obs.raw = v in lambda bin b (a row
\* the frame does not have counts 0)
HistCell(h, v, b) == IF <<v, b>> \in DOMAIN h THEN h[<<v, b>>] ELSE 0

\* the rows of a table whose la_exp.<k>.value is in the interval
\* (ledges[b], ledges[b+1]] and whose obs.raw is v
RowsIn(scored_df, k, v, b) ==
    {i \in 1..Len(scored_df) :
        /\ FLt(Ledges[b], scored_df[i].la[k])
        /\ FLe(scored_df[i].la[k], Ledges[b + 1])
        /\ scored_df[i].obs = v}

\* the total mass of a histogram frame
HistMass(h) ==
    LET RECURSIVE Total(_)
        Total(C) == IF C = {} THEN 0
                    ELSE LET c == CHOOSE x \in C : TRUE
                         IN  h[c] + Total(C \ {c})
    IN  Total(DOMAIN h)

\* the number of rows of the first n tables
RECURSIVE RowsUpTo(_)
RowsUpTo(n) == IF n = 0 THEN 0 ELSE Len(hscored[n]) + RowsUpTo(n - 1)

\* C28: for every tile, kernel k, ladder interval B (left-open,
\* right-closed) and count v, the histogram holds the number of rows with
\* la_exp.k.value in B and obs.raw = v; the ladder running from -inf to
\* +inf, the mass of each kernel's histogram is the number of rows of the
\* table, and the mass of the merged histogram the number of rows of all
\* the tiles.
C28_HistogramCountsRows ==
    /\ \A t \in 1..Len(hchunks) : \A k \in KTypes :
          /\ \A b \in LBins(Ledges) : \A v \in 0..(MaxCount + 1) :
                HistCell(hchunks[t][k], v, b) =
                    Cardinality(RowsIn(hscored[t], k, v, b))
          /\ HistMass(hchunks[t][k]) = Len(hscored[t])
    /\ hpc \in {"check", "raised", "returned"} =>
          \A k \in KTypes : HistMass(final_hist[k]) = RowsUpTo(Len(hscored))

\* C28 witness: the histograms of three tiles were merged, two of the tiles
\* with rows, one of them with a row whose la_exp is exactly an edge of the
\* ladder, and one tile without rows.
C28_Witness ==
    /\ hpc \in {"check", "raised", "returned"}
    /\ Len(hscored) = 3
    /\ \E t \in 1..3 : Len(hscored[t]) = 0
    /\ \E t \in 1..3 : Len(hscored[t]) = 2
    /\ \E t \in 1..3 : \E i \in 1..Len(hscored[t]) : \E k \in KTypes :
          hscored[t][i].la[k] = Ledges[2]
    /\ \A k \in KTypes : HistMass(final_hist[k]) = RowsUpTo(3)
    /\ RowsUpTo(3) >= 3

\* --- scoring_step

\* C29: for the tile list t1..tN, scoring_step calls score_tile once per
\* tile with every parameter it requires and persists the N tables in tile
\* order: it ends with the N tables stored, never by raising.
C29_ScoringStepStoresEveryTile ==
    (spc \in {"done", "raised"} /\ sargs.step = "score") =>
        /\ spc = "done"
        /\ Len(chunks) = Len(sargs.tiles)
        /\ \A n \in 1..Len(chunks) :
              chunks[n] = score_tile(AdjustedOf(clr, sargs.tiles[n], sargs.kernels).peaks_df,
                                     sargs.nans_tolerated, sargs.loci_separation_bins)

\* --- the spans of square_matrix_tiling

\* C30: every span (lo, hi) that square_matrix_tiling yields, row or
\* column, square or not, is non-empty and inside the range:
\* start <= lo < hi <= stop, also for ranges shorter than step + edge.
C30_SpansInsideRange ==
    gen = "square" =>
        \A k \in 1..Len(tiles) : \A d \in 1..2 :
            /\ targs.start <= tiles[k][d][1]
            /\ tiles[k][d][1] < tiles[k][d][2]
            /\ tiles[k][d][2] <= targs.stop

====
